---- MODULE Spec2Model ----
(***************************************************************************)
(* A model of the PoolManager of hibbannn/pool-manager (src/manager.go,    *)
(* src/metric.go): the six sync.Map stores, the sync.Pool free-lists, the  *)
(* per-pool metrics and metadata objects, and the goroutines that call     *)
(* AddPool, AcquireInstance, ReleaseInstance and RemovePool.  A call is a   *)
(* sequence of steps, one per access to a shared map or free-list; a step  *)
(* includes the reads and writes the call makes through a pointer the      *)
(* access gave it, and the call's local work up to its next access.        *)
(***************************************************************************)
EXTENDS Integers, Sequences, FiniteSets, TLC

\* ------------------------------------------------------------------ bounds

\* The goroutines that call the manager, and the pool names they use.  The
\* callers acquire from and release to WorkerPool; the other names are added
\* and removed only.
Threads == {"t1", "t2"}
PoolNames == {"p", "q"}
WorkerPool == "p"

\* Calls the goroutines make in a run, all goroutines together: in a run whose
\* calls follow one another (MaxOps), and in a run whose calls overlap
\* (MaxRaceOps).
MaxOps == 5
MaxRaceOps == 3

\* Calls and evictor sweeps in a run that has the evictor (MaxEvictOps), the
\* latest time such a run reaches (MaxNow), and the TTL of its
\* TTLEvictionPolicy, in the same unit.
MaxEvictOps == 4
MaxNow == 2
TTL == 1

\* Calls of InitializePool, StartAutoTuning and StopAutoTuning in a run that
\* has the background loops (MaxTuneOps), and the loop goroutines such a run
\* starts (MaxLoops).
MaxTuneOps == 3
MaxLoops == 2

\* Calls of GetShardIndex and getShardIndex in a run of the sharding strategies
\* (MaxShardOps), the largest shardCount passed to them (MaxShardCount), and the
\* largest size passed to a setter of the configuration builder (MaxSizeArg).
MaxShardOps == 4
MaxShardCount == 3
MaxSizeArg == 2

\* Largest InitialSize and CacheMaxSize of a configuration passed to AddPool.
MaxInitialSize == 1
MaxCacheMax == 1

\* Calls and auto-tuner ticks in a run that has ResizePool (MaxResizeOps), and
\* the largest size passed to ResizePool (MaxResize).
MaxResizeOps == 3
MaxResize == 2

\* Calls in a run that has SetShardingStrategy.
MaxStrategyOps == 4

\* Calls and evictor sweeps in a run that has the evictor and AddItemMetadata.
MaxSweepOps == 3

\* The largest Frequency of the metadata a SmartEvictionPolicy is asked about,
\* which is also its MinFrequency when it has one.
MaxFrequency == 2

\* Calls in a run that also has Reset and Clear.
MaxResetOps == 4

\* Calls in a run that also has ForceEvict and AddItemMetadata and whose
\* configurations range over every InitialSize up to MaxFill and every
\* CacheMaxSize up to MaxCacheMax.
MaxAdminOps == 4
MaxFill == 2

\* ShardCount of a configuration with sharding enabled.
NumShards == 2

\* ---------------------------------------------------------------- constants

\* Go's nil, for pointers and interface values.
Nil == 0

\* The widths Go's int has: 32 bits on 386 and arm builds, 64 on amd64 and arm64.
IntWidths == {32, 64}

\* The error messages of config.go and error.go, and those written inline in
\* manager.go.
ErrPoolDoesNotExist == "pool does not exist: "
ErrInvalidShardedPoolName == "pool is not sharded as expected"
ErrInvalidNonShardedPoolName == "pool is not a valid sync.Pool"
ErrInvalidPoolConfigType == "invalid pool config type"
ErrNilInstance == "cannot put nil instance into pool"
ErrShardCountMismatch == "shard count mismatch with configuration"
ErrShardIndexOutOfRange == "shard index out of range"
ErrNoInstanceInShard == "no instance available in the selected shard"
ErrNoInstanceInPool == "no instance available in the non-sharded pool"
ErrPoolAlreadyExists == "pool already exists: "

\* An error value: NewPoolError(name, operation, errors.New(msg)), or a plain
\* errors.New(msg) (operation ""), or nil (NoErr).
NoErr == [operation |-> "", msg |-> ""]
NewPoolError(operation, msg) == [operation |-> operation, msg |-> msg]
PlainError(msg) == [operation |-> "", msg |-> msg]

\* ------------------------------------------------------------ configuration

\* PoolConfiguration{}: the zero value.
ZeroConfig ==
  [EnableCaching |-> FALSE, CacheMaxSize |-> 0, ShardingEnabled |-> FALSE,
   ShardCount |-> 0, InitialSize |-> 0]

\* The configurations callers pass to AddPool.
Configs ==
  { [EnableCaching |-> c, CacheMaxSize |-> IF c THEN m ELSE 0,
     ShardingEnabled |-> s, ShardCount |-> IF s THEN NumShards ELSE 0,
     InitialSize |-> n] :
      c \in BOOLEAN, s \in BOOLEAN, m \in {MaxCacheMax}, n \in {MaxInitialSize} }

\* conf.ShardingEnabled && conf.ShardCount > 1
IsSharded(conf) == conf.ShardingEnabled /\ conf.ShardCount > 1

\* ------------------------------------------------------------------- heaps

\* Pointers to sync.Pool storage, *PoolMetrics and *PoolItemMetadata objects.
\* At most one object per map key and one per goroutine is reachable at a time;
\* pm.itemMetadata has one key more than the pool names.
Refs == 1..(Cardinality(PoolNames) + Cardinality(Threads) + 1)

\* PoolAble instances; each call creates at most max(1, InitialSize) of them.
Larger(a, b) == IF a > b THEN a ELSE b
Instances ==
  1..Larger(Larger(Larger(MaxOps, MaxRaceOps) * Larger(MaxInitialSize, 1),
                   MaxAdminOps * MaxFill),
            MaxInitialSize + MaxResizeOps * NumShards * Larger(MaxResize, 2))

ShardIdx == 0..(NumShards - 1)

\* A sync.Pool as the bag of the items put into it and not yet taken.
EmptyBag == [i \in Instances |-> 0]
BagAdd(b, x) == [b EXCEPT ![x] = @ + 1]
BagRemove(b, x) == [b EXCEPT ![x] = @ - 1]
BagItems(b) == {i \in Instances : b[i] > 0}
\* The number of items in it.
RECURSIVE SumOver(_, _)
SumOver(f, S) ==
  IF S = {} THEN 0
  ELSE LET x == CHOOSE y \in S : TRUE IN f[x] + SumOver(f, S \ {x})
BagSize(b) == SumOver(b, Instances)

\* The value stored in pm.pools: []*sync.Pool (sharded) or *sync.Pool.
NoPoolObj == [sharded |-> FALSE, fl |-> [s \in ShardIdx |-> EmptyBag]]
NewPoolObj(conf) == [sharded |-> IsSharded(conf), fl |-> [s \in ShardIdx |-> EmptyBag]]
\* len(shardedPools)
ShardLen(obj) == IF obj.sharded THEN NumShards ELSE 1

\* &PoolMetrics{}
ZeroMetrics == [TotalGets |-> 0, TotalPuts |-> 0, TotalEvicts |-> 0, CurrentUsage |-> 0]

\* The PoolItemMetadata that safelyUpdateMetadata creates lazily.  Updates is
\* not a field of the struct: it counts the updateMetadata calls that have
\* written to the record.
LazyMetadata ==
  [PoolName |-> "", Status |-> "Active", Frequency |-> 0, LastUsed |-> 0, Updates |-> 0]

\* The evictor's goroutine between two sweeps.
IdleSweep == [pc |-> "idle", key |-> "", visited |-> {}, expired |-> {}, kept |-> {},
              cached |-> {}, evicts |-> <<>>, pool |-> "", before |-> <<>>,
              removed |-> {}, onEvict |-> 0]

VARIABLES
  pools,              \* pm.pools: name -> Ref of the pool storage
  poolConfig,         \* pm.poolConfig: name -> PoolConfiguration
  instanceFactories,  \* pm.instanceFactories: name -> factory
  metrics,            \* pm.metrics: name -> Ref of a PoolMetrics
  itemMetadata,       \* pm.itemMetadata: key -> Ref of a PoolItemMetadata
  cache,              \* pm.cache: name -> instance
  poolHeap,           \* Ref -> pool storage object
  metricHeap,         \* Ref -> PoolMetrics
  metaHeap,           \* Ref -> PoolItemMetadata
  pc,                 \* goroutine -> position in the call it is making
  loc,                \* goroutine -> local variables of the call
  ret,                \* what the call that returned last gave its caller
  held,               \* goroutine -> the instance it acquired and has not released
  opsLeft,            \* calls the goroutines may still make
  life,               \* name -> what the callers know of the pool's registration
  removals,           \* the names RemovePool has been called with
  overlap,            \* TRUE when the goroutines' calls may overlap in this run
  intBits,            \* the width of Go's int on the build that runs
  now,                \* time.Now(), in units of the eviction policy's TTL
  sweep,              \* the evictor's goroutine: its position in Evict, what it did
  autoTuneTicker,     \* pm.autoTuneTicker: Nil or a ticker
  autoTuneStop,       \* pm.autoTuneStop: a channel
  tickers,            \* ticker -> "running" or "stopped", for the tickers made so far
  channels,           \* channel -> "open" or "closed", for the channels made so far
  loops,              \* the goroutines of autoTune, runEviction and StartAutoTuning
  caller,             \* the goroutine that calls InitializePool, Start- and StopAutoTuning
  builder,            \* PoolConfigBuilder.config
  built,              \* what the last call of Build returned
  counter,            \* RoundRobinSharding.counter, an int64 in 16-bit limbs
  seeded,             \* RandomSharding.rng: the source it was last made from
  shardCall,          \* the last call of a sharding strategy and its result
  remembered,         \* an earlier call of HashSharding.GetShardIndex
  window,             \* the run of consecutive round-robin calls for one pool
  shardingStrategy,   \* pm.shardingStrategy
  evictCall           \* the last call of SmartEvictionPolicy.ShouldEvict and its result

stores == <<pools, poolConfig, instanceFactories, metrics, itemMetadata, cache>>
heaps == <<poolHeap, metricHeap, metaHeap>>
evictor == <<now, sweep>>
\* What the calls of AddPool, AcquireInstance, ReleaseInstance and RemovePool
\* leave alone.
tuner == <<autoTuneTicker, autoTuneStop, tickers, channels, loops, caller>>
values == <<builder, built, counter, seeded, shardCall, remembered, window,
            shardingStrategy, evictCall>>
background == <<evictor, tuner, values>>
vars == <<pools, poolConfig, instanceFactories, metrics, itemMetadata, cache,
          poolHeap, metricHeap, metaHeap, pc, loc, ret, held, opsLeft, life,
          removals, overlap, intBits, now, sweep,
          autoTuneTicker, autoTuneStop, tickers, channels, loops, caller,
          builder, built, counter, seeded, shardCall, remembered, window,
          shardingStrategy, evictCall>>

\* -------------------------------------------------------- background loops

LoopIds == 1..MaxLoops

\* A goroutine slot: kind is "start" (the loop of StartAutoTuning), "tune"
\* (autoTune) or "evict" (runEviction); tk and ch are the ticker and the channel
\* its select waits on.  afterStop: it was started after a StopAutoTuning had
\* made a new channel; stopSince: a StopAutoTuning was called since it started;
\* stopped: a StopAutoTuning that found the ticker, called while an auto-tuner
\* loop and an evictor loop were running, has returned since it started;
\* worked: it has processed a tick since then.
NoLoop ==
  [kind |-> "none", pc |-> "none", tk |-> Nil, ch |-> Nil, afterStop |-> FALSE,
   stopSince |-> FALSE, stopped |-> FALSE, worked |-> FALSE]

\* The caller between two calls; the other fields tell of its last call: what it
\* called (op) and what it had called before (prev); whether no loop was
\* running when it called (noLoop), whether an auto-tuner loop and an evictor
\* loop were (both), the loops that were processing a tick (busy), and pm's
\* ticker and channel fields, the tickers and the channels as they were (snap).
IdleCaller ==
  [pc |-> "idle", op |-> "none", prev |-> "none", noLoop |-> FALSE, both |-> FALSE,
   busy |-> {}, snap |-> <<Nil, Nil, <<>>, <<>>>>]

\* NewPoolManager without AutoTune and TTL: no ticker, the channel of
\* make(chan struct{}), no loop.
NoTuner ==
  /\ autoTuneTicker = Nil
  /\ autoTuneStop = 1
  /\ tickers = <<>>
  /\ channels = <<"open">>
  /\ loops = [l \in LoopIds |-> NoLoop]
  /\ caller = IdleCaller

\* ------------------------------------------------- builder and sharding values

\* A float64: NaN, or the number v.
Float(v) == [nan |-> FALSE, v |-> v]
NaN == [nan |-> TRUE, v |-> 0]

\* x <= y and x > y of two float64: a comparison with NaN is false.
FloatLeq(x, y) == ~x.nan /\ ~y.nan /\ x.v <= y.v
FloatGt(x, y) == ~x.nan /\ ~y.nan /\ x.v > y.v

\* PoolConfiguration{}, in the fields that Validate reads.
ZeroPoolConfiguration ==
  [SizeLimit |-> 0, MinSize |-> 0, MaxSize |-> 0, InitialSize |-> 0,
   AutoTune |-> FALSE, AutoTuneFactor |-> Float(0),
   ShardingEnabled |-> FALSE, ShardCount |-> 0]

\* The configuration of the builder that NewPoolConfiguration(poolName) returns.
NewPoolConfiguration ==
  [SizeLimit |-> 10, MinSize |-> 1, MaxSize |-> 10, InitialSize |-> 1,
   AutoTune |-> FALSE, AutoTuneFactor |-> Float(1),
   ShardingEnabled |-> FALSE, ShardCount |-> 1]

\* Build has not been called on the builder as it is now.
NotBuilt == [called |-> FALSE, err |-> "", conf |-> ZeroPoolConfiguration]

\* The int64 0, in four 16-bit limbs, the most significant first.
Zero64 == <<0, 0, 0, 0>>

\* No sharding strategy has been called.
NoShardCall ==
  [strategy |-> "none", poolType |-> <<>>, shardCount |-> 0, key |-> <<>>, index |-> 0]
NoRemembered ==
  [set |-> FALSE, poolType |-> <<>>, shardCount |-> 0, key |-> <<>>, index |-> 0,
   between |-> FALSE, again |-> FALSE]
NoWindow ==
  [poolType |-> <<>>, shardCount |-> 0, calls |-> 0,
   hits |-> [i \in 0..(MaxShardCount - 1) |-> 0], wrapped |-> FALSE]

\* config.ShardStrategy of a configuration that sets none: a nil interface.
NoStrategy == [kind |-> "nil", index |-> 0]

\* SmartEvictionPolicy.ShouldEvict has not been called.
NoEvictCall ==
  [called |-> FALSE, policy |-> [TTL |-> 0, MaxIdleTime |-> 0, MinFrequency |-> 0],
   key |-> "", LastUsed |-> 0, Frequency |-> 0, at |-> 0, result |-> FALSE]

\* A fresh builder, and strategies and policies nothing has called.
NoValues ==
  /\ builder = NewPoolConfiguration
  /\ built = NotBuilt
  /\ counter = Zero64
  /\ seeded = "time"
  /\ shardCall = NoShardCall
  /\ remembered = NoRemembered
  /\ window = NoWindow
  /\ shardingStrategy = NoStrategy
  /\ evictCall = NoEvictCall

\* ---------------------------------------------------------------- sync.Map

EmptyMap == [k \in {} |-> Nil]
Has(m, k) == k \in DOMAIN m
Store(m, k, v) == [x \in (DOMAIN m) \cup {k} |-> IF x = k THEN v ELSE m[x]]
Delete(m, k) == [x \in (DOMAIN m) \ {k} |-> m[x]]
Range(m) == {m[k] : k \in DOMAIN m}

\* ------------------------------------------------------ goroutine-local state

\* What a call did that its caller or a callback of the configuration can see:
\* factory() calls (created), OnCreate and OnPut calls, the errors passed to
\* OnError, the instances passed to OnDestroy, the instances a cache insertion
\* removed (evicted) and whether it found the cache at its limit, the sizes
\* passed to ResizePool and to OnAutoTune, and the shard indices it routed to;
\* for ForceEvict, whether metadata for the key existed under the pool when it
\* was called (under), and pm.itemMetadata and pm.cache as they were (before);
\* for ResizePool and a tick of the auto-tuner, the instances its Get calls
\* discarded, the current sizes it computed (measured), whether the call before
\* it was the same ResizePool (again), and the free-list sizes of the pool and
\* its counters as they were when it began (was), which AcquireInstance and
\* ReleaseInstance remember too; for AcquireInstance and ReleaseInstance, the
\* steps the call has made, in the order it made them (order).
NoEvents ==
  [created |-> 0, onCreate |-> 0, onPut |-> 0, onError |-> <<>>, onDestroy |-> {},
   evicted |-> {}, atLimit |-> FALSE, resize |-> <<>>, onAutoTune |-> <<>>,
   route |-> <<>>, under |-> FALSE, before |-> <<>>,
   discarded |-> {}, measured |-> <<>>, again |-> FALSE,
   was |-> [fl |-> <<>>, TotalGets |-> 0, TotalPuts |-> 0, CurrentUsage |-> 0],
   order |-> <<>>]

IdleLoc ==
  [op |-> "none", name |-> "", key |-> "", size |-> 0, shard |-> 0, j |-> 0, conf |-> ZeroConfig, cconf |-> ZeroConfig,
   inst |-> Nil, poolRef |-> Nil, mRef |-> Nil, mdRef |-> Nil,
   err |-> NoErr, i |-> 0, hit |-> FALSE, action |-> "", status |-> "",
   resets |-> 0, inserted |-> FALSE, sawEmpty |-> FALSE, fresh |-> FALSE,
   pre |-> "unknown", absent |-> FALSE, addOverlap |-> FALSE, ev |-> NoEvents]

NoRet ==
  [op |-> "none", name |-> "", key |-> "", size |-> 0, err |-> NoErr, inst |-> Nil, hit |-> FALSE,
   resets |-> 0, inserted |-> FALSE, sawEmpty |-> FALSE, fresh |-> FALSE,
   pre |-> "unknown", absent |-> FALSE, ev |-> NoEvents]

\* The result of a call whose local variables are l, as the caller sees it.
Result(l, err, inst) ==
  [op |-> l.op, name |-> l.name, key |-> l.key, size |-> l.size, err |-> err, inst |-> inst,
   hit |-> l.hit, resets |-> l.resets, inserted |-> l.inserted,
   sawEmpty |-> l.sawEmpty, fresh |-> l.fresh, pre |-> l.pre,
   absent |-> l.absent, ev |-> l.ev]

\* The sizes of the free-lists of the pool registered as p, shard by shard, and
\* its counters, for a call to remember.
FreeListSizes(p) ==
  IF Has(pools, p)
    THEN [sh \in ShardIdx |-> BagSize(poolHeap[pools[p]].fl[sh])]
    ELSE [sh \in ShardIdx |-> 0]
CountersOf(p, field) == IF Has(metrics, p) THEN metricHeap[metrics[p]][field] ELSE 0
Was(p) ==
  [fl |-> FreeListSizes(p), TotalGets |-> CountersOf(p, "TotalGets"),
   TotalPuts |-> CountersOf(p, "TotalPuts"),
   CurrentUsage |-> CountersOf(p, "CurrentUsage")]

\* --------------------------------------------------------------- reachability

ReachPoolRefs ==
  ({pools[k] : k \in DOMAIN pools} \cup {loc[t].poolRef : t \in Threads}) \ {Nil}
ReachMetricRefs ==
  ({metrics[k] : k \in DOMAIN metrics} \cup {loc[t].mRef : t \in Threads}) \ {Nil}
ReachMetaRefs ==
  ({itemMetadata[k] : k \in DOMAIN itemMetadata} \cup {loc[t].mdRef : t \in Threads}) \ {Nil}
ReachInstances ==
  (UNION {BagItems(poolHeap[r].fl[s]) : r \in ReachPoolRefs, s \in ShardIdx}
     \cup Range(cache) \cup {held[t] : t \in Threads}
     \cup {loc[t].inst : t \in Threads}) \ {Nil}

\* A new object takes the lowest address no live pointer holds.
Lowest(S) == CHOOSE x \in S : \A y \in S : x <= y
NewPoolRef == Lowest(Refs \ ReachPoolRefs)
NewMetricRef == Lowest(Refs \ ReachMetricRefs)
NewMetaRef == Lowest(Refs \ ReachMetaRefs)
NewInstance == Lowest(Instances \ ReachInstances)

\* The heaps after a step: ph, mh, dh are the step's writes; objects that no
\* pointer reaches any more are garbage and are cleared.
Heaps(ph, mh, dh) ==
  /\ poolHeap' = [r \in Refs |-> IF r \in ReachPoolRefs' THEN ph[r] ELSE NoPoolObj]
  /\ metricHeap' = [r \in Refs |-> IF r \in ReachMetricRefs' THEN mh[r] ELSE ZeroMetrics]
  /\ metaHeap' = [r \in Refs |-> IF r \in ReachMetaRefs' THEN dh[r] ELSE LazyMetadata]
SameHeaps == Heaps(poolHeap, metricHeap, metaHeap)

\* ------------------------------------------------------------------ control

\* A panic ends the process: no goroutine takes a step after it.
Running == \A u \in Threads : pc[u] # "panic"

Goto(t, label, newloc) ==
  /\ Running
  /\ pc' = [pc EXCEPT ![t] = label]
  /\ loc' = [loc EXCEPT ![t] = newloc]
  /\ UNCHANGED <<ret, held, opsLeft, overlap, intBits, background>>

\* The call of goroutine t, its local variables l, returns (err, inst) to its
\* caller; the caller of AcquireInstance holds the instance from then on.
Return(t, l, err, inst) ==
  /\ Running
  /\ pc' = [pc EXCEPT ![t] = "idle"]
  /\ ret' = Result(l, err, inst)
  /\ loc' = [loc EXCEPT ![t] = IdleLoc]
  /\ held' = [held EXCEPT ![t] = IF l.op = "AcquireInstance" THEN inst ELSE @]
  /\ UNCHANGED <<opsLeft, overlap, intBits, background>>

\* The local variables l of a call that has made the step called name.
Step(l, name) == [l EXCEPT !.ev.order = Append(@, name)]

\* A sub-procedure of AcquireInstance or ReleaseInstance is done: the call goes
\* on at label, or, at label "ret", runs its last callback and returns nil.
Continue(t, label, l) ==
  IF label = "ret"
    THEN Return(t, IF l.op = "ReleaseInstance"
                     THEN Step([l EXCEPT !.ev.onPut = @ + 1], "onPut") ELSE l,
                NoErr, IF l.op = "AcquireInstance" THEN l.inst ELSE Nil)
    ELSE Goto(t, label, l)

\* Goroutines in a call on pool name p.
InCall(p) == {t \in Threads : pc[t] # "idle" /\ loc[t].name = p}
InOp(p, op) == {t \in InCall(p) : loc[t].op = op}

\* A call on name p begins: the in-flight calls on p learn that an AddPool or a
\* RemovePool on p overlaps them (what they saw of the registration when they
\* began no longer stands); addOverlap tells a RemovePool that an AddPool
\* overlapped it, and an AddPool that an AddPool or a RemovePool did.
Begin(t, op, p, newloc) ==
  /\ pc[t] = "idle"
  /\ opsLeft > 0
  /\ Running
  /\ overlap \/ \A u \in Threads : pc[u] = "idle"
  /\ sweep.pc = "idle"
  /\ UNCHANGED <<overlap, intBits, background>>
  /\ opsLeft' = opsLeft - 1
  /\ ret' = NoRet
  /\ loc' = [u \in Threads |->
       IF u = t THEN newloc
       ELSE IF u \in InCall(p) /\ op \in {"AddPool", "RemovePool"}
         THEN [loc[u] EXCEPT !.pre = "unknown",
                             !.addOverlap = @ \/ (op = "AddPool") \/ (loc[u].op = "AddPool")]
         ELSE loc[u]]

Init ==
  /\ pools = EmptyMap
  /\ poolConfig = EmptyMap
  /\ instanceFactories = EmptyMap
  /\ metrics = EmptyMap
  /\ itemMetadata = EmptyMap
  /\ cache = EmptyMap
  /\ poolHeap = [r \in Refs |-> NoPoolObj]
  /\ metricHeap = [r \in Refs |-> ZeroMetrics]
  /\ metaHeap = [r \in Refs |-> LazyMetadata]
  /\ pc = [t \in Threads |-> "idle"]
  /\ loc = [t \in Threads |-> IdleLoc]
  /\ ret = NoRet
  /\ held = [t \in Threads |-> Nil]
  /\ opsLeft = MaxOps
  /\ life = [p \in PoolNames |-> "unknown"]
  /\ removals = {}
  /\ overlap = FALSE
  /\ intBits \in IntWidths
  /\ now = 0
  /\ sweep = IdleSweep
  /\ NoTuner
  /\ NoValues

\* The same manager, called by goroutines whose calls overlap.
InitRace ==
  /\ pools = EmptyMap
  /\ poolConfig = EmptyMap
  /\ instanceFactories = EmptyMap
  /\ metrics = EmptyMap
  /\ itemMetadata = EmptyMap
  /\ cache = EmptyMap
  /\ poolHeap = [r \in Refs |-> NoPoolObj]
  /\ metricHeap = [r \in Refs |-> ZeroMetrics]
  /\ metaHeap = [r \in Refs |-> LazyMetadata]
  /\ pc = [t \in Threads |-> "idle"]
  /\ loc = [t \in Threads |-> IdleLoc]
  /\ ret = NoRet
  /\ held = [t \in Threads |-> Nil]
  /\ opsLeft = MaxRaceOps
  /\ life = [p \in PoolNames |-> "unknown"]
  /\ removals = {}
  /\ overlap = TRUE
  /\ intBits \in IntWidths
  /\ now = 0
  /\ sweep = IdleSweep
  /\ NoTuner
  /\ NoValues

\* The same manager with a TTLEvictionPolicy, its evictor sweeping between calls
\* that follow one another, while time passes.
InitEvict ==
  /\ pools = EmptyMap
  /\ poolConfig = EmptyMap
  /\ instanceFactories = EmptyMap
  /\ metrics = EmptyMap
  /\ itemMetadata = EmptyMap
  /\ cache = EmptyMap
  /\ poolHeap = [r \in Refs |-> NoPoolObj]
  /\ metricHeap = [r \in Refs |-> ZeroMetrics]
  /\ metaHeap = [r \in Refs |-> LazyMetadata]
  /\ pc = [t \in Threads |-> "idle"]
  /\ loc = [t \in Threads |-> IdleLoc]
  /\ ret = NoRet
  /\ held = [t \in Threads |-> Nil]
  /\ opsLeft = MaxEvictOps
  /\ life = [p \in PoolNames |-> "unknown"]
  /\ removals = {}
  /\ overlap = FALSE
  /\ intBits \in IntWidths
  /\ now = 0
  /\ sweep = IdleSweep
  /\ NoTuner
  /\ NoValues

\* The names the calls of a run use: overlapping calls all name WorkerPool.
Names == IF overlap THEN {WorkerPool} ELSE PoolNames

\* ----------------------------------------------------------------- sharding


\* A uint32 as two 16-bit halves; the FNV-1a hashes of the keys
\* time.Now().String() that a call may see.
HashSamples ==
  { [hi |-> 0, lo |-> 0], [hi |-> 0, lo |-> 1], [hi |-> 32768, lo |-> 0],
    [hi |-> 65535, lo |-> 65535] }

\* v % n for the uint32 v, n > 0.
U32Mod(v, n) == (((v.hi % n) * (65536 % n)) + (v.lo % n)) % n

\* int(hashValue) % conf.ShardCount: Go's % truncates toward zero, and int() of
\* a uint32 with the top bit set is negative when int has 32 bits.
IntMod(v, n) ==
  IF intBits > 32 \/ v.hi < 32768
    THEN U32Mod(v, n)
    ELSE 0 - U32Mod([hi |-> 65535 - v.hi, lo |-> 65536 - v.lo], n)

\* pm.getShardIndex(poolName, conf, key), key hashing to h
getShardIndex(conf, h) == IntMod(h, conf.ShardCount)

\* ------------------------------------------------------------------ AddPool

\* The six stores hold no entry for name p.
NoEntry(p) ==
  /\ ~Has(pools, p) /\ ~Has(poolConfig, p) /\ ~Has(instanceFactories, p)
  /\ ~Has(metrics, p) /\ ~Has(cache, p) /\ ~Has(itemMetadata, p)

\* A goroutine calls pm.AddPool(p, factory, conf).
BeginAddPool(t, p, conf) ==
  /\ Begin(t, "AddPool", p,
       [IdleLoc EXCEPT !.op = "AddPool", !.name = p, !.conf = conf,
          !.pre = IF InOp(p, "RemovePool") = {} THEN life[p] ELSE "unknown",
          !.addOverlap = (InOp(p, "AddPool") \cup InOp(p, "RemovePool")) # {}])
  /\ pc' = [pc EXCEPT ![t] = "add_load"]
  /\ life' = [life EXCEPT ![p] = IF @ = "registered" THEN @ ELSE "unknown"]
  /\ UNCHANGED <<stores, held, removals>>
  /\ SameHeaps

\* The error AddPool returns for a name that pm.pools already holds.
AddPoolExistsError == NewPoolError("add", ErrPoolDoesNotExist)

\* if _, exists := pm.pools.Load(poolName); exists { return NewPoolError(...) }
AddPoolLoad(t) ==
  /\ pc[t] = "add_load"
  /\ IF Has(pools, loc[t].name)
       THEN Return(t, loc[t], AddPoolExistsError, Nil)
       ELSE Goto(t, "add_pools", loc[t])
  /\ UNCHANGED <<stores, life, removals>>
  /\ SameHeaps

\* pool = shardedPools or &sync.Pool{New: ...}; pm.pools.Store(poolName, pool)
AddPoolStorePools(t) ==
  /\ pc[t] = "add_pools"
  /\ LET r == NewPoolRef IN
       /\ pools' = Store(pools, loc[t].name, r)
       /\ Goto(t, "add_config", [loc[t] EXCEPT !.poolRef = r])
       /\ UNCHANGED <<poolConfig, instanceFactories, metrics, itemMetadata, cache, life, removals>>
       /\ Heaps([poolHeap EXCEPT ![r] = NewPoolObj(loc[t].conf)], metricHeap, metaHeap)

\* pm.poolConfig.Store(poolName, config)
AddPoolStoreConfig(t) ==
  /\ pc[t] = "add_config"
  /\ poolConfig' = Store(poolConfig, loc[t].name, loc[t].conf)
  /\ Goto(t, "add_factory", loc[t])
  /\ UNCHANGED <<pools, instanceFactories, metrics, itemMetadata, cache, life, removals>>
  /\ SameHeaps

\* pm.instanceFactories.Store(poolName, factory)
AddPoolStoreFactory(t) ==
  /\ pc[t] = "add_factory"
  /\ instanceFactories' = Store(instanceFactories, loc[t].name, TRUE)
  /\ Goto(t, IF loc[t].conf.InitialSize > 0 THEN "add_fill" ELSE "add_metrics", loc[t])
  /\ UNCHANGED <<pools, poolConfig, metrics, itemMetadata, cache, life, removals>>
  /\ SameHeaps

\* The InitialSize loop with a bound one short: for i := 1; i < InitialSize; i++
AddPoolFillOneShort(t) ==
  /\ pc[t] = "add_fill"
  /\ LET x == NewInstance
         r == loc[t].poolRef
         last == loc[t].i + 2 >= loc[t].conf.InitialSize
     IN \E s \in ShardIdx :
          /\ s < (IF IsSharded(loc[t].conf) THEN loc[t].conf.ShardCount ELSE 1)
          /\ Goto(t, IF last THEN "add_metrics" ELSE "add_fill",
                  [loc[t] EXCEPT !.i = @ + 1, !.ev.created = @ + 1,
                                 !.ev.onCreate = @ + 1])
          /\ UNCHANGED <<stores, life, removals>>
          /\ Heaps([poolHeap EXCEPT ![r].fl[s] = BagAdd(@, x)], metricHeap, metaHeap)

\* One iteration of the InitialSize loop: instance := factory(); OnCreate; Put
\* into a shard drawn by crypto/rand, or into the single pool.
AddPoolFill(t) ==
  /\ pc[t] = "add_fill"
  /\ LET x == NewInstance
         r == loc[t].poolRef
         last == loc[t].i + 1 >= loc[t].conf.InitialSize
     IN \E s \in ShardIdx :
          /\ s < (IF IsSharded(loc[t].conf) THEN loc[t].conf.ShardCount ELSE 1)
          /\ Goto(t, IF last THEN "add_metrics" ELSE "add_fill",
                  [loc[t] EXCEPT !.i = @ + 1, !.ev.created = @ + 1,
                                 !.ev.onCreate = @ + 1])
          /\ UNCHANGED <<stores, life, removals>>
          /\ Heaps([poolHeap EXCEPT ![r].fl[s] = BagAdd(@, x)], metricHeap, metaHeap)

\* pm.initMetrics(poolName): pm.metrics.Store(poolType, &PoolMetrics{}); return nil
AddPoolInitMetrics(t) ==
  /\ pc[t] = "add_metrics"
  /\ LET m == NewMetricRef
         p == loc[t].name
     IN /\ metrics' = Store(metrics, p, m)
        /\ Return(t, loc[t], NoErr, Nil)
        /\ life' = [life EXCEPT ![p] =
             IF ~loc[t].addOverlap THEN "registered" ELSE "unknown"]
        /\ UNCHANGED <<pools, poolConfig, instanceFactories, itemMetadata, cache, removals>>
        /\ Heaps(poolHeap, [metricHeap EXCEPT ![m] = ZeroMetrics], metaHeap)

\* --------------------------------------------------------------- RemovePool

\* A goroutine calls pm.RemovePool(p).
BeginRemovePool(t, p) ==
  /\ Begin(t, "RemovePool", p,
       [IdleLoc EXCEPT !.op = "RemovePool", !.name = p, !.absent = NoEntry(p),
          !.addOverlap = InOp(p, "AddPool") # {}])
  /\ pc' = [pc EXCEPT ![t] = "rm_pools"]
  /\ life' = [life EXCEPT ![p] = "unknown"]
  /\ removals' = removals \cup {p}
  /\ UNCHANGED <<stores, held>>
  /\ SameHeaps

\* pm.pools.Delete(poolName)
RemovePools(t) ==
  /\ pc[t] = "rm_pools"
  /\ pools' = Delete(pools, loc[t].name)
  /\ Goto(t, "rm_config", loc[t])
  /\ UNCHANGED <<poolConfig, instanceFactories, metrics, itemMetadata, cache, life, removals>>
  /\ SameHeaps

\* pm.poolConfig.Delete(poolName)
RemoveConfig(t) ==
  /\ pc[t] = "rm_config"
  /\ poolConfig' = Delete(poolConfig, loc[t].name)
  /\ Goto(t, "rm_factory", loc[t])
  /\ UNCHANGED <<pools, instanceFactories, metrics, itemMetadata, cache, life, removals>>
  /\ SameHeaps

\* pm.instanceFactories.Delete(poolName)
RemoveFactory(t) ==
  /\ pc[t] = "rm_factory"
  /\ instanceFactories' = Delete(instanceFactories, loc[t].name)
  /\ Goto(t, "rm_metrics", loc[t])
  /\ UNCHANGED <<pools, poolConfig, metrics, itemMetadata, cache, life, removals>>
  /\ SameHeaps

\* pm.metrics.Delete(poolName)
RemoveMetrics(t) ==
  /\ pc[t] = "rm_metrics"
  /\ metrics' = Delete(metrics, loc[t].name)
  /\ Goto(t, "rm_cache", loc[t])
  /\ UNCHANGED <<pools, poolConfig, instanceFactories, itemMetadata, cache, life, removals>>
  /\ SameHeaps

\* pm.cache.Delete(poolName)
RemoveCache(t) ==
  /\ pc[t] = "rm_cache"
  /\ cache' = Delete(cache, loc[t].name)
  /\ Goto(t, "rm_metadata", loc[t])
  /\ UNCHANGED <<pools, poolConfig, instanceFactories, metrics, itemMetadata, life, removals>>
  /\ SameHeaps

\* A RemovePool that reports a name it found in no store.
RemovePoolResultStrict(t) ==
  IF loc[t].absent THEN PlainError(ErrPoolDoesNotExist) ELSE NoErr

\* What RemovePool returns.
RemovePoolResult(t) == NoErr

\* pm.itemMetadata.Delete(poolName); return nil
RemoveMetadata(t) ==
  /\ pc[t] = "rm_metadata"
  /\ itemMetadata' = Delete(itemMetadata, loc[t].name)
  /\ Return(t, loc[t], RemovePoolResult(t), Nil)
  /\ life' = [life EXCEPT ![loc[t].name] =
       IF ~loc[t].addOverlap THEN "removed" ELSE "unknown"]
  /\ UNCHANGED <<pools, poolConfig, instanceFactories, metrics, cache, removals>>
  /\ SameHeaps

\* -------------------------------------------- sub-procedures of acquire/release

\* Where a call continues when one of its sub-procedures returns.
AfterMetadata(l) ==
  IF l.op = "ReleaseInstance" THEN "rel_pools"
  ELSE IF l.hit THEN "m_load" ELSE "ret"
AfterMetric(l) ==
  IF l.op = "AcquireInstance" /\ l.hit THEN "ret"
  ELSE IF l.conf.EnableCaching THEN "atc_config"
  ELSE IF l.op = "AcquireInstance" THEN "md_load" ELSE "ret"
AfterCache(l) ==
  IF l.op = "AcquireInstance" THEN "md_load" ELSE "ret"

\* safelyUpdateMetadata: pm.itemMetadata.LoadOrStore(key, &PoolItemMetadata{...});
\* the updateFunc then reads metadata.Frequency through the pointer.
MetadataLoadOrStore(t) ==
  /\ pc[t] = "md_load"
  /\ LET k == loc[t].name IN
       IF Has(itemMetadata, k)
         THEN /\ Goto(t, "md_store",
                   [loc[t] EXCEPT !.mdRef = itemMetadata[k],
                                  !.i = metaHeap[itemMetadata[k]].Frequency])
              /\ UNCHANGED <<stores, life, removals>>
              /\ SameHeaps
         ELSE LET r == NewMetaRef IN
              /\ itemMetadata' = Store(itemMetadata, k, r)
              /\ Goto(t, "md_store", [loc[t] EXCEPT !.mdRef = r, !.i = LazyMetadata.Frequency])
              /\ UNCHANGED <<pools, poolConfig, instanceFactories, metrics, cache, life, removals>>
              /\ Heaps(poolHeap, metricHeap,
                       [metaHeap EXCEPT ![r] = [LazyMetadata EXCEPT !.LastUsed = now]])

\* updateMetadata's updateFunc writes metadata.LastUsed = time.Now(),
\* metadata.Status = status and the incremented Frequency; safelyUpdateMetadata: pm.itemMetadata.Store(key, metadata)
MetadataStore(t) ==
  /\ pc[t] = "md_store"
  /\ LET l == Step([loc[t] EXCEPT !.mdRef = Nil, !.i = 0], "metadata") IN
       /\ itemMetadata' = Store(itemMetadata, loc[t].name, loc[t].mdRef)
       /\ Continue(t, AfterMetadata(l), l)
       /\ UNCHANGED <<pools, poolConfig, instanceFactories, metrics, cache, life, removals>>
       /\ Heaps(poolHeap, metricHeap,
                [metaHeap EXCEPT ![loc[t].mdRef] =
                   [@ EXCEPT !.LastUsed = now,
                             !.Status = loc[t].status,
                             !.Frequency = loc[t].i + 1,
                             !.Updates = @ + 1]])

\* recordMetric with a "put" that leaves CurrentUsage alone.
UsageDeltaGetOnly(action) == IF action = "get" THEN 1 ELSE 0

\* The change recordMetric makes to the counters for an action; an action that
\* the switch does not name ("cache_hit") changes none.
TotalDelta(action, field) ==
  IF (action = "get" /\ field = "TotalGets") \/ (action = "put" /\ field = "TotalPuts")
       \/ (action = "evict" /\ field = "TotalEvicts")
    THEN 1 ELSE 0
UsageDelta(action) == IF action = "get" THEN 1 ELSE IF action = "put" THEN 0 - 1 ELSE 0

\* m with atomic.AddInt64(&m.TotalGets, 1), (&m.TotalPuts, 1) or (&m.TotalEvicts, 1)
AddTotal(m, action) ==
  [m EXCEPT !.TotalGets = @ + TotalDelta(action, "TotalGets"),
            !.TotalPuts = @ + TotalDelta(action, "TotalPuts"),
            !.TotalEvicts = @ + TotalDelta(action, "TotalEvicts")]

\* recordMetric: pm.metrics.LoadOrStore(poolType, &PoolMetrics{}), then the first
\* atomic add of the switch, made through the pointer.
MetricLoadOrStore(t) ==
  /\ pc[t] = "m_load"
  /\ LET k == loc[t].name
         counted == loc[t].action \in {"get", "put"}
         r == IF Has(metrics, k) THEN metrics[k] ELSE NewMetricRef
         m == IF Has(metrics, k) THEN metricHeap[r] ELSE ZeroMetrics
         l == IF counted THEN [loc[t] EXCEPT !.mRef = r] ELSE Step(loc[t], "metric")
     IN /\ metrics' = IF Has(metrics, k) THEN metrics ELSE Store(metrics, k, r)
        /\ Continue(t, IF counted THEN "m_usage" ELSE AfterMetric(l), l)
        /\ UNCHANGED <<pools, poolConfig, instanceFactories, itemMetadata, cache, life, removals>>
        /\ Heaps(poolHeap, [metricHeap EXCEPT ![r] = AddTotal(m, loc[t].action)], metaHeap)

\* recordMetric: atomic.AddInt32(&metrics.CurrentUsage, +1 or -1)
MetricAddUsage(t) ==
  /\ pc[t] = "m_usage"
  /\ LET l == Step([loc[t] EXCEPT !.mRef = Nil], "metric") IN
       /\ Continue(t, AfterMetric(l), l)
       /\ UNCHANGED <<stores, life, removals>>
       /\ Heaps(poolHeap,
                [metricHeap EXCEPT ![loc[t].mRef].CurrentUsage = @ + UsageDelta(loc[t].action)],
                metaHeap)

\* addToCache: configVal, ok := pm.poolConfig.Load(poolName); if conf.EnableCaching
CacheLoadConfig(t) ==
  /\ pc[t] = "atc_config"
  /\ LET k == loc[t].name IN
       IF Has(poolConfig, k) /\ poolConfig[k].EnableCaching
         THEN Goto(t, "atc_size", [loc[t] EXCEPT !.cconf = poolConfig[k]])
         ELSE Continue(t, AfterCache(loc[t]), loc[t])
  /\ UNCHANGED <<stores, life, removals>>
  /\ SameHeaps

\* getCacheSize(poolName): the number of keys of pm.cache equal to poolName
getCacheSize(k) == IF Has(cache, k) THEN 1 ELSE 0

\* addToCache: cacheSize := pm.getCacheSize(poolName); if cacheSize >= conf.CacheMaxSize
CacheSize(t) ==
  /\ pc[t] = "atc_size"
  /\ Goto(t, IF getCacheSize(loc[t].name) >= loc[t].cconf.CacheMaxSize
               THEN "atc_oldest" ELSE "atc_store",
          [loc[t] EXCEPT !.cconf = ZeroConfig,
             !.ev.atLimit = getCacheSize(loc[t].name) >= loc[t].cconf.CacheMaxSize])
  /\ UNCHANGED <<stores, life, removals>>
  /\ SameHeaps

\* addToCache, after evictOldestCacheItem: conf.OnDestroy(poolName, instance)
Destroyed(l) == [l EXCEPT !.ev.onDestroy = @ \cup {l.inst}]

\* evictOldestCacheItem: the Range over pm.itemMetadata finds the key equal to
\* poolName, if the map holds it; if not, nothing is deleted and addToCache
\* goes on to OnDestroy.
CacheFindOldest(t) ==
  /\ pc[t] = "atc_oldest"
  /\ IF Has(itemMetadata, loc[t].name)
       THEN Goto(t, "atc_evict_cache", loc[t])
       ELSE Goto(t, "atc_store", Destroyed(loc[t]))
  /\ UNCHANGED <<stores, life, removals>>
  /\ SameHeaps

\* evictOldestCacheItem: pm.cache.Delete(oldestKey)
CacheEvictCache(t) ==
  /\ pc[t] = "atc_evict_cache"
  /\ cache' = Delete(cache, loc[t].name)
  /\ Goto(t, "atc_evict_metadata",
          [loc[t] EXCEPT !.ev.evicted =
             IF Has(cache, loc[t].name) THEN @ \cup {cache[loc[t].name]} ELSE @])
  /\ UNCHANGED <<pools, poolConfig, instanceFactories, metrics, itemMetadata, life, removals>>
  /\ SameHeaps

\* evictOldestCacheItem: pm.itemMetadata.Delete(oldestKey)
CacheEvictMetadata(t) ==
  /\ pc[t] = "atc_evict_metadata"
  /\ itemMetadata' = Delete(itemMetadata, loc[t].name)
  /\ Goto(t, "atc_store", Destroyed(loc[t]))
  /\ UNCHANGED <<pools, poolConfig, instanceFactories, metrics, cache, life, removals>>
  /\ SameHeaps

\* addToCache: pm.cache.Store(poolName, instance)
CacheStore(t) ==
  /\ pc[t] = "atc_store"
  /\ cache' = Store(cache, loc[t].name, loc[t].inst)
  /\ Continue(t, AfterCache(loc[t]),
          Step([loc[t] EXCEPT !.inserted = @ \/ (loc[t].op = "ReleaseInstance")], "cache"))
  /\ UNCHANGED <<pools, poolConfig, instanceFactories, metrics, itemMetadata, life, removals>>
  /\ SameHeaps

\* handleError(poolName, err): conf.OnError(poolName, err) if pm.poolConfig holds
\* a configuration for the name; the call then returns the error.
HandleError(t) ==
  /\ pc[t] = "handle_error"
  /\ Return(t, IF Has(poolConfig, loc[t].name)
                 THEN [loc[t] EXCEPT !.ev.onError = Append(@, loc[t].err)]
                 ELSE loc[t],
            loc[t].err, Nil)
  /\ UNCHANGED <<stores, life, removals>>
  /\ SameHeaps

\* ---------------------------------------------------------- AcquireInstance

\* A goroutine that holds no instance calls pm.AcquireInstance(p).
BeginAcquire(t, p) ==
  /\ held[t] = Nil
  /\ Begin(t, "AcquireInstance", p,
       [IdleLoc EXCEPT !.op = "AcquireInstance", !.name = p, !.pre = life[p],
          !.ev.was = Was(p)])
  /\ pc' = [pc EXCEPT ![t] = "acq_config"]
  /\ life' = [life EXCEPT ![p] = IF @ = "removed" THEN "removedUsed" ELSE @]
  /\ UNCHANGED <<stores, held, removals>>
  /\ SameHeaps

\* getPoolConfiguration: the error when pm.poolConfig holds no PoolConfiguration.
ConfigError == NewPoolError("config", ErrInvalidPoolConfigType)

\* conf, err := pm.getPoolConfiguration(poolName)
AcquireLoadConfig(t) ==
  /\ pc[t] = "acq_config"
  /\ LET k == loc[t].name IN
       IF Has(poolConfig, k)
         THEN Goto(t, IF poolConfig[k].EnableCaching THEN "acq_cache" ELSE "acq_pools",
                   [loc[t] EXCEPT !.conf = poolConfig[k]])
         ELSE Goto(t, "handle_error", [loc[t] EXCEPT !.err = ConfigError])
  /\ UNCHANGED <<stores, life, removals>>
  /\ SameHeaps

\* if cachedInstance, found := pm.cache.Load(poolName); found: the hit path goes
\* on to updateMetadata(poolName, "Active") and recordMetric(poolName, "cache_hit").
AcquireCacheLoad(t) ==
  /\ pc[t] = "acq_cache"
  /\ LET k == loc[t].name IN
       IF Has(cache, k)
         THEN Goto(t, "md_load",
                   [loc[t] EXCEPT !.inst = cache[k], !.hit = TRUE,
                                  !.status = "Active", !.action = "cache_hit"])
         ELSE Goto(t, "acq_pools", loc[t])
  /\ UNCHANGED <<stores, life, removals>>
  /\ SameHeaps

\* pool, ok := pm.pools.Load(poolName)
AcquireLoadPools(t) ==
  /\ pc[t] = "acq_pools"
  /\ LET k == loc[t].name IN
       IF Has(pools, k)
         THEN Goto(t, "acq_get", [loc[t] EXCEPT !.poolRef = pools[k]])
         ELSE Goto(t, "handle_error", [loc[t] EXCEPT !.err = PlainError(ErrPoolDoesNotExist)])
  /\ UNCHANGED <<stores, life, removals>>
  /\ SameHeaps

\* getInstanceFromPool: the checks made before a free-list is touched; NoErr
\* when the pool storage matches the configuration and index idx is in range.
GetCheck(conf, obj, idx) ==
  IF IsSharded(conf)
    THEN IF ~obj.sharded THEN NewPoolError("get", ErrInvalidShardedPoolName)
         ELSE IF ShardLen(obj) # conf.ShardCount THEN NewPoolError("get", ErrShardCountMismatch)
         ELSE IF idx < 0 \/ idx >= ShardLen(obj) THEN NewPoolError("get", ErrShardIndexOutOfRange)
         ELSE NoErr
    ELSE IF obj.sharded THEN NewPoolError("get", ErrInvalidNonShardedPoolName) ELSE NoErr

\* sync.Pool.Get on free-list b of a pool whose New calls the factory: the
\* instances it may return, Nil standing for "none stored: call New".
PoolGet(b) == IF BagItems(b) = {} THEN {Nil} ELSE BagItems(b)

\* getInstanceFromPool: the shard is chosen by the hash of time.Now().String();
\* Get pops an instance or, on an empty free-list, has New create one.  Then
\* recordMetric(poolName, "get") follows.
AcquireGet(t) ==
  /\ pc[t] = "acq_get"
  /\ LET conf == loc[t].conf
         r == loc[t].poolRef
         obj == poolHeap[r]
     IN \E h \in HashSamples :
          LET idx == IF IsSharded(conf) THEN getShardIndex(conf, h) ELSE 0
              e == GetCheck(conf, obj, idx)
          IN IF e # NoErr
               THEN /\ Goto(t, "handle_error", [loc[t] EXCEPT !.err = e, !.poolRef = Nil])
                    /\ UNCHANGED <<stores, life, removals>>
                    /\ SameHeaps
               ELSE \E got \in PoolGet(obj.fl[idx]) :
                      LET empty == BagItems(obj.fl[idx]) = {}
                          x == IF got = Nil /\ empty THEN NewInstance ELSE got
                      IN IF x = Nil
                           THEN /\ Goto(t, "handle_error",
                                     [loc[t] EXCEPT !.poolRef = Nil, !.sawEmpty = empty,
                                        !.err = NewPoolError("get",
                                           IF IsSharded(conf) THEN ErrNoInstanceInShard
                                           ELSE ErrNoInstanceInPool)])
                                /\ UNCHANGED <<stores, life, removals>>
                                /\ SameHeaps
                           ELSE /\ Goto(t, "m_load",
                                     [loc[t] EXCEPT !.inst = x, !.poolRef = Nil,
                                        !.sawEmpty = empty, !.fresh = empty,
                                        !.action = "get", !.status = "Active",
                                        !.ev.created = IF empty THEN @ + 1 ELSE @,
                                        !.ev.route = IF IsSharded(conf)
                                                       THEN Append(@, idx) ELSE @])
                                /\ UNCHANGED <<stores, life, removals>>
                                /\ Heaps(IF empty THEN poolHeap
                                         ELSE [poolHeap EXCEPT ![r].fl[idx] = BagRemove(@, x)],
                                         metricHeap, metaHeap)

\* ---------------------------------------------------------- ReleaseInstance

\* A goroutine calls pm.ReleaseInstance(p, x) with the instance x it holds, or
\* with nil; a nil instance goes straight to handleError.
BeginRelease(t, p, x) ==
  /\ x \in {held[t], Nil}
  /\ Begin(t, "ReleaseInstance", p,
       [IdleLoc EXCEPT !.op = "ReleaseInstance", !.name = p, !.inst = x,
          !.pre = life[p], !.status = "Idle", !.action = "put",
          !.err = IF x = Nil THEN PlainError(ErrNilInstance) ELSE NoErr,
          !.ev.was = Was(p)])
  /\ pc' = [pc EXCEPT ![t] = IF x = Nil THEN "handle_error" ELSE "md_load"]
  /\ held' = [held EXCEPT ![t] = IF x = Nil THEN @ ELSE Nil]
  /\ life' = [life EXCEPT ![p] = IF @ = "removed" THEN "removedUsed" ELSE @]
  /\ UNCHANGED <<stores, removals>>
  /\ SameHeaps

\* poolVal, ok := pm.pools.Load(poolName)
ReleaseLoadPools(t) ==
  /\ pc[t] = "rel_pools"
  /\ LET k == loc[t].name IN
       IF Has(pools, k)
         THEN Goto(t, "rel_config", [loc[t] EXCEPT !.poolRef = pools[k]])
         ELSE Goto(t, "handle_error", [loc[t] EXCEPT !.err = PlainError(ErrPoolDoesNotExist)])
  /\ UNCHANGED <<stores, life, removals>>
  /\ SameHeaps

\* conf, err := pm.getPoolConfiguration(poolName)
ReleaseLoadConfig(t) ==
  /\ pc[t] = "rel_config"
  /\ LET k == loc[t].name IN
       IF Has(poolConfig, k)
         THEN Goto(t, "rel_reset", [loc[t] EXCEPT !.conf = poolConfig[k]])
         ELSE Goto(t, "handle_error", [loc[t] EXCEPT !.err = ConfigError, !.poolRef = Nil])
  /\ UNCHANGED <<stores, life, removals>>
  /\ SameHeaps

\* instance.Reset(); pm.triggerCallbackWithInstance(conf.OnReset, ...)
ReleaseReset(t) ==
  /\ pc[t] = "rel_reset"
  /\ Goto(t, "rel_put", Step(Step([loc[t] EXCEPT !.resets = @ + 1], "reset"), "onReset"))
  /\ UNCHANGED <<stores, life, removals>>
  /\ SameHeaps

\* putInstanceToPool: the type assertion on the pool storage.
PutCheck(conf, obj) ==
  IF IsSharded(conf)
    THEN IF ~obj.sharded THEN NewPoolError("put", ErrInvalidShardedPoolName) ELSE NoErr
    ELSE IF obj.sharded THEN NewPoolError("put", ErrInvalidNonShardedPoolName) ELSE NoErr

\* putInstanceToPool: shardedPools[shardIndex].Put(instance), the index not
\* checked (an index out of range panics), or nonShardedPool.Put(instance).
\* Then recordMetric(poolName, "put") follows.
ReleasePut(t) ==
  /\ pc[t] = "rel_put"
  /\ LET conf == loc[t].conf
         r == loc[t].poolRef
         obj == poolHeap[r]
         e == PutCheck(conf, obj)
     IN IF e # NoErr
          THEN /\ Goto(t, "handle_error", [loc[t] EXCEPT !.err = e, !.poolRef = Nil])
               /\ UNCHANGED <<stores, life, removals>>
               /\ SameHeaps
          ELSE \E h \in HashSamples :
                 LET idx == IF IsSharded(conf) THEN getShardIndex(conf, h) ELSE 0 IN
                   IF idx < 0 \/ idx >= ShardLen(obj)
                     THEN /\ Goto(t, "panic", [loc[t] EXCEPT !.poolRef = Nil])
                          /\ UNCHANGED <<stores, life, removals>>
                          /\ SameHeaps
                     ELSE /\ Goto(t, "m_load",
                               Step([loc[t] EXCEPT !.poolRef = Nil, !.inserted = TRUE,
                                       !.ev.route = IF IsSharded(conf)
                                                      THEN Append(@, idx) ELSE @],
                                    "insert"))
                          /\ UNCHANGED <<stores, life, removals>>
                          /\ Heaps([poolHeap EXCEPT ![r].fl[idx] = BagAdd(@, loc[t].inst)],
                                   metricHeap, metaHeap)

\* ------------------------------------------------------------------ evictor

\* TTLEvictionPolicy.ShouldEvict: time.Since(metadata.LastUsed) > p.TTL
ShouldEvict(md) == now - md.LastUsed > TTL

\* TotalEvicts of pool k, 0 for a pool without metrics.
EvictMetric(k) == IF Has(metrics, k) THEN metricHeap[metrics[k]].TotalEvicts ELSE 0

\* Time passes between two calls.
Tick ==
  /\ Running
  /\ \A u \in Threads : pc[u] = "idle"
  /\ sweep.pc = "idle"
  /\ now < MaxNow
  /\ now' = now + 1
  /\ UNCHANGED <<stores, pc, loc, ret, held, opsLeft, life, removals, overlap, intBits, sweep, tuner, values>>
  /\ SameHeaps

\* runEviction: the ticker fires and pm.evictionPolicy.Evict(poolName, pm) begins.
\* The sweep remembers what it found: the keys whose metadata is older than the
\* TTL, the keys used at this very time, the keys the cache holds and the
\* TotalEvicts of every pool; the pool name runEviction was started with
\* (WorkerPool), the maps and the pool storage as they were (before); and what
\* it does: the keys it deletes (removed) and its calls of OnEvict (onEvict),
\* of which Evict and runEviction make none.
EvictBegin ==
  /\ Running
  /\ \A u \in Threads : pc[u] = "idle"
  /\ sweep.pc = "idle"
  /\ opsLeft > 0
  /\ opsLeft' = opsLeft - 1
  /\ ret' = NoRet
  /\ sweep' = [IdleSweep EXCEPT
       !.pc = "range",
       !.expired = {k \in DOMAIN itemMetadata : ShouldEvict(metaHeap[itemMetadata[k]])},
       !.kept = {k \in DOMAIN itemMetadata : metaHeap[itemMetadata[k]].LastUsed = now},
       !.cached = DOMAIN cache,
       !.evicts = [k \in PoolNames |-> EvictMetric(k)],
       !.pool = WorkerPool,
       !.before = <<itemMetadata, cache, pools, poolHeap, metaHeap>>]
  /\ UNCHANGED <<stores, pc, loc, held, life, removals, overlap, intBits, now, tuner, values>>
  /\ SameHeaps

\* Evict: pm.itemMetadata.Range visits a key it has not visited, in no fixed
\* order, and evaluates p.ShouldEvict(key, metadata); the Range ends when no key
\* is left.
EvictRange ==
  /\ Running
  /\ sweep.pc = "range"
  /\ LET left == DOMAIN itemMetadata \ sweep.visited IN
       IF left = {}
         THEN sweep' = [sweep EXCEPT !.pc = "done"]
         ELSE \E k \in left :
                sweep' = [sweep EXCEPT
                  !.visited = @ \cup {k},
                  !.key = IF ShouldEvict(metaHeap[itemMetadata[k]]) THEN k ELSE "",
                  !.pc = IF ShouldEvict(metaHeap[itemMetadata[k]]) THEN "del_cache" ELSE "range"]
  /\ UNCHANGED <<stores, pc, loc, ret, held, opsLeft, life, removals, overlap, intBits, now, tuner, values>>
  /\ SameHeaps

\* Evict: pm.cache.Delete(key)
EvictDeleteCache ==
  /\ Running
  /\ sweep.pc = "del_cache"
  /\ cache' = Delete(cache, sweep.key)
  /\ sweep' = [sweep EXCEPT !.pc = "del_metadata"]
  /\ UNCHANGED <<pools, poolConfig, instanceFactories, metrics, itemMetadata,
                 pc, loc, ret, held, opsLeft, life, removals, overlap, intBits, now, tuner, values>>
  /\ SameHeaps

\* Evict: pm.itemMetadata.Delete(key), then the log line; the Range goes on.
EvictDeleteMetadata ==
  /\ Running
  /\ sweep.pc = "del_metadata"
  /\ itemMetadata' = Delete(itemMetadata, sweep.key)
  /\ sweep' = [sweep EXCEPT !.pc = "range", !.key = "", !.removed = @ \cup {sweep.key}]
  /\ UNCHANGED <<pools, poolConfig, instanceFactories, metrics, cache,
                 pc, loc, ret, held, opsLeft, life, removals, overlap, intBits, now, tuner, values>>
  /\ SameHeaps

\* Evict has returned: runEviction goes back to its select.
EvictReturn ==
  /\ Running
  /\ sweep.pc = "done"
  /\ sweep' = IdleSweep
  /\ UNCHANGED <<stores, pc, loc, ret, held, opsLeft, life, removals, overlap, intBits, now, tuner, values>>
  /\ SameHeaps

\* ------------------------------------------- auto-tuning and its stop signal

\* The goroutines that call AddPool, AcquireInstance, ReleaseInstance and
\* RemovePool, which make no step in a run of the background loops.
callers == <<pc, loc, ret, held, life, removals, overlap, intBits>>

\* The configurations passed to NewPoolManager and InitializePool: AutoTune with
\* a positive AutoTuneInterval or not, a positive TTL or none.
TuneConfigs ==
  { [EnableCaching |-> FALSE, CacheMaxSize |-> 0, ShardingEnabled |-> FALSE,
     ShardCount |-> 0, InitialSize |-> MaxInitialSize,
     AutoTune |-> a, AutoTuneInterval |-> IF a THEN 1 ELSE 0,
     TTL |-> IF e THEN 1 ELSE 0] : a \in BOOLEAN, e \in BOOLEAN }

\* A panic in any goroutine ends the process.
Crashed == caller.pc = "panic" \/ \E l \in LoopIds : loops[l].pc = "panic"

\* The goroutine of slot l is in its loop.
Alive(l) == loops[l].pc \notin {"none", "done", "panic"}

\* go pm.autoTune(...), go pm.runEviction(...), go func() {...}(): the goroutine
\* takes the lowest free slot of ls.  autoTune and the loop of StartAutoTuning
\* begin at their select; runEviction has made its own ticker tk.
Spawn(ls, kind, tk) ==
  LET l == Lowest({x \in LoopIds : ls[x].kind = "none"}) IN
    [ls EXCEPT ![l] =
       [NoLoop EXCEPT !.kind = kind,
                      !.pc = IF kind = "evict" THEN "eval_stop" ELSE "eval_ticker",
                      !.tk = tk,
                      !.afterStop = Len(channels) > 1]]

\* The free slots that starting the loops of configuration conf takes.
SlotsFor(conf) == (IF conf.AutoTune THEN 1 ELSE 0) + (IF conf.TTL > 0 THEN 1 ELSE 0)
FreeSlots == {x \in LoopIds : loops[x].kind = "none"}

\* The n lowest instances that nothing reaches: what n calls of factory() return.
NewInstances(n) ==
  LET free == Instances \ ReachInstances IN
    {x \in free : Cardinality({y \in free : y < x}) < n}

\* The tickers and loops after the part of NewPoolManager and InitializePool
\* that starts the loops: time.NewTicker(config.AutoTuneInterval) and go
\* pm.autoTune(...) if config.AutoTune, go pm.runEviction(...) if config.TTL > 0.
TickersWithTune(conf) == IF conf.AutoTune THEN Append(tickers, "running") ELSE tickers
TickersWith(conf) ==
  IF conf.TTL > 0 THEN Append(TickersWithTune(conf), "running") ELSE TickersWithTune(conf)
LoopsWithTune(conf) == IF conf.AutoTune THEN Spawn(loops, "tune", Nil) ELSE loops
LoopsWith(conf) ==
  IF conf.TTL > 0
    THEN Spawn(LoopsWithTune(conf), "evict", Len(TickersWith(conf)))
    ELSE LoopsWithTune(conf)

\* pm.InitializePool(p, conf, factory): an error for a name pm.pools holds;
\* otherwise the pool, its configuration and factory are stored, the ticker is
\* replaced and autoTune started if conf.AutoTune, the pool is filled with
\* InitialSize instances, and runEviction is started if conf.TTL > 0.
InitializePool(p, conf) ==
  /\ ~Crashed
  /\ caller.pc = "idle"
  /\ opsLeft > 0
  /\ opsLeft' = opsLeft - 1
  /\ caller' = [IdleCaller EXCEPT !.op = "InitializePool", !.prev = caller.op]
  /\ UNCHANGED <<callers, evictor, values, autoTuneStop, channels>>
  /\ IF Has(pools, p)
       THEN /\ UNCHANGED <<stores, autoTuneTicker, tickers, loops>>
            /\ SameHeaps
       ELSE LET r == NewPoolRef
                new == NewInstances(conf.InitialSize)
            IN /\ SlotsFor(conf) <= Cardinality(FreeSlots)
               /\ pools' = Store(pools, p, r)
               /\ poolConfig' = Store(poolConfig, p, conf)
               /\ instanceFactories' = Store(instanceFactories, p, TRUE)
               /\ autoTuneTicker' =
                    IF conf.AutoTune THEN Len(TickersWithTune(conf)) ELSE autoTuneTicker
               /\ tickers' = TickersWith(conf)
               /\ loops' = LoopsWith(conf)
               /\ UNCHANGED <<metrics, itemMetadata, cache>>
               /\ Heaps([poolHeap EXCEPT ![r] =
                           [sharded |-> FALSE,
                            fl |-> [sh \in ShardIdx |->
                                     [i \in Instances |->
                                        IF sh = 0 /\ i \in new THEN 1 ELSE 0]]]],
                        metricHeap, metaHeap)

\* pm.StartAutoTuning(): if pm.autoTuneTicker == nil, a new ticker and a new
\* goroutine with the loop; otherwise nothing.
StartAutoTuning ==
  /\ ~Crashed
  /\ caller.pc = "idle"
  /\ opsLeft > 0
  /\ opsLeft' = opsLeft - 1
  /\ caller' = [IdleCaller EXCEPT !.op = "StartAutoTuning", !.prev = caller.op]
  /\ IF autoTuneTicker = Nil
       THEN /\ FreeSlots # {}
            /\ tickers' = Append(tickers, "running")
            /\ autoTuneTicker' = Len(tickers) + 1
            /\ loops' = Spawn(loops, "start", Nil)
       ELSE UNCHANGED <<tickers, autoTuneTicker, loops>>
  /\ UNCHANGED <<stores, callers, evictor, values, autoTuneStop, channels>>
  /\ SameHeaps

\* pm.StopAutoTuning() is called: if pm.autoTuneTicker != nil it goes on to its
\* select, else it logs "Auto-tuning is not running" and returns.
StopCheck ==
  /\ ~Crashed
  /\ caller.pc = "idle"
  /\ opsLeft > 0
  /\ opsLeft' = opsLeft - 1
  /\ caller' = [pc |-> IF autoTuneTicker = Nil THEN "idle" ELSE "stop_send",
                op |-> "StopAutoTuning", prev |-> caller.op,
                noLoop |-> \A l \in LoopIds : ~Alive(l),
                both |-> /\ \E l \in LoopIds : Alive(l) /\ loops[l].kind \in {"tune", "start"}
                         /\ \E l \in LoopIds : Alive(l) /\ loops[l].kind = "evict",
                busy |-> {l \in LoopIds : autoTuneTicker # Nil /\ loops[l].pc = "busy"},
                snap |-> <<autoTuneTicker, autoTuneStop, tickers, channels>>]
  /\ loops' = [l \in LoopIds |->
       IF Alive(l) THEN [loops[l] EXCEPT !.stopSince = TRUE] ELSE loops[l]]
  /\ UNCHANGED <<stores, callers, evictor, values, autoTuneTicker, autoTuneStop, tickers, channels>>
  /\ SameHeaps

\* Where a loop goes when its select receives from the stop channel: the loop of
\* StartAutoTuning stops the ticker first, runEviction runs its deferred
\* ticker.Stop(), autoTune returns.
ExitPc(kind) ==
  IF kind = "start" THEN "exit_check" ELSE IF kind = "evict" THEN "exit_defer" ELSE "done"

\* StopAutoTuning: select { case pm.autoTuneStop <- struct{}{}: default: }.  A
\* send on a closed channel panics; a loop that waits in its select on this
\* channel receives the signal; with no such loop the default case runs.
StopSend ==
  /\ ~Crashed
  /\ caller.pc = "stop_send"
  /\ LET waiting == {l \in LoopIds : loops[l].pc = "wait" /\ loops[l].ch = autoTuneStop} IN
       IF channels[autoTuneStop] = "closed"
         THEN /\ caller' = [caller EXCEPT !.pc = "panic"]
              /\ UNCHANGED loops
         ELSE IF waiting = {}
           THEN /\ caller' = [caller EXCEPT !.pc = "stop_ticker"]
                /\ UNCHANGED loops
           ELSE \E l \in waiting :
                  /\ caller' = [caller EXCEPT !.pc = "stop_ticker"]
                  /\ loops' = [loops EXCEPT ![l].pc = ExitPc(loops[l].kind)]
  /\ UNCHANGED <<stores, callers, evictor, values, opsLeft, autoTuneTicker, autoTuneStop, tickers, channels>>
  /\ SameHeaps

\* StopAutoTuning: pm.autoTuneTicker.Stop(), a nil dereference if a loop has
\* set the field to nil meanwhile.
StopTicker ==
  /\ ~Crashed
  /\ caller.pc = "stop_ticker"
  /\ IF autoTuneTicker = Nil
       THEN /\ caller' = [caller EXCEPT !.pc = "panic"]
            /\ UNCHANGED tickers
       ELSE /\ caller' = [caller EXCEPT !.pc = "stop_nil"]
            /\ tickers' = [tickers EXCEPT ![autoTuneTicker] = "stopped"]
  /\ UNCHANGED <<stores, callers, evictor, values, opsLeft, autoTuneTicker, autoTuneStop, channels, loops>>
  /\ SameHeaps

\* StopAutoTuning: pm.autoTuneTicker = nil
StopNil ==
  /\ ~Crashed
  /\ caller.pc = "stop_nil"
  /\ autoTuneTicker' = Nil
  /\ caller' = [caller EXCEPT !.pc = "stop_make"]
  /\ UNCHANGED <<stores, callers, evictor, values, opsLeft, autoTuneStop, tickers, channels, loops>>
  /\ SameHeaps

\* StopAutoTuning: pm.autoTuneStop = make(chan struct{})
StopMake ==
  /\ ~Crashed
  /\ caller.pc = "stop_make"
  /\ channels' = Append(channels, "open")
  /\ autoTuneStop' = Len(channels) + 1
  /\ caller' = [caller EXCEPT !.pc = "stop_close"]
  /\ UNCHANGED <<stores, callers, evictor, values, opsLeft, autoTuneTicker, tickers, loops>>
  /\ SameHeaps

\* StopAutoTuning returns and its deferred function runs: recover() is nil, so
\* close(pm.autoTuneStop), the field read now.
StopClose ==
  /\ ~Crashed
  /\ caller.pc = "stop_close"
  /\ IF channels[autoTuneStop] = "closed"
       THEN /\ caller' = [caller EXCEPT !.pc = "panic"]
            /\ UNCHANGED <<channels, loops>>
       ELSE /\ caller' = [caller EXCEPT !.pc = "idle"]
            /\ channels' = [channels EXCEPT ![autoTuneStop] = "closed"]
            /\ loops' = [l \in LoopIds |->
                 IF Alive(l) /\ caller.both
                   THEN [loops[l] EXCEPT !.stopped = TRUE] ELSE loops[l]]
  /\ UNCHANGED <<stores, callers, evictor, values, opsLeft, autoTuneTicker, autoTuneStop, tickers>>
  /\ SameHeaps

\* A step of loop l that changes the loop alone.
LoopGoto(l, newloop) ==
  /\ ~Crashed
  /\ loops' = [loops EXCEPT ![l] = newloop]
  /\ UNCHANGED <<stores, callers, evictor, values, opsLeft, caller, autoTuneStop, channels>>
  /\ SameHeaps

\* select: the operand pm.autoTuneTicker.C is evaluated, a nil dereference when
\* the field is nil.
LoopEvalTicker(l) ==
  /\ loops[l].pc = "eval_ticker"
  /\ LoopGoto(l, IF autoTuneTicker = Nil
                   THEN [loops[l] EXCEPT !.pc = "panic"]
                   ELSE [loops[l] EXCEPT !.pc = "eval_stop", !.tk = autoTuneTicker])
  /\ UNCHANGED <<autoTuneTicker, tickers>>

\* select: the operand pm.autoTuneStop is evaluated; the goroutine then waits.
LoopEvalStop(l) ==
  /\ loops[l].pc = "eval_stop"
  /\ LoopGoto(l, [loops[l] EXCEPT !.pc = "wait", !.ch = autoTuneStop])
  /\ UNCHANGED <<autoTuneTicker, tickers>>

\* case <-ticker.C: a ticker that was not stopped fires.
LoopTick(l) ==
  /\ loops[l].pc = "wait"
  /\ tickers[loops[l].tk] = "running"
  /\ LoopGoto(l, [loops[l] EXCEPT !.pc = "busy", !.worked = @ \/ loops[l].stopped])
  /\ UNCHANGED <<autoTuneTicker, tickers>>

\* The tick is processed (autoTunePoolSize, the resize of autoTune, or
\* evictionPolicy.Evict); the loop goes back to its select.
LoopBody(l) ==
  /\ loops[l].pc = "busy"
  /\ LoopGoto(l, [loops[l] EXCEPT
                    !.pc = IF loops[l].kind = "evict" THEN "eval_stop" ELSE "eval_ticker"])
  /\ UNCHANGED <<autoTuneTicker, tickers>>

\* case <-pm.autoTuneStop on a closed channel: the receive succeeds at once.
LoopStopClosed(l) ==
  /\ loops[l].pc = "wait"
  /\ channels[loops[l].ch] = "closed"
  /\ LoopGoto(l, [loops[l] EXCEPT !.pc = ExitPc(loops[l].kind)])
  /\ UNCHANGED <<autoTuneTicker, tickers>>

\* The loop of StartAutoTuning: if pm.autoTuneTicker != nil
LoopExitCheck(l) ==
  /\ loops[l].pc = "exit_check"
  /\ LoopGoto(l, [loops[l] EXCEPT !.pc = IF autoTuneTicker # Nil THEN "exit_stop" ELSE "done"])
  /\ UNCHANGED <<autoTuneTicker, tickers>>

\* The loop of StartAutoTuning: pm.autoTuneTicker.Stop(), a nil dereference if
\* StopAutoTuning has set the field to nil meanwhile.
LoopExitStop(l) ==
  /\ loops[l].pc = "exit_stop"
  /\ LoopGoto(l, [loops[l] EXCEPT !.pc = IF autoTuneTicker = Nil THEN "panic" ELSE "exit_nil"])
  /\ tickers' = IF autoTuneTicker = Nil THEN tickers
                 ELSE [tickers EXCEPT ![autoTuneTicker] = "stopped"]
  /\ UNCHANGED autoTuneTicker

\* The loop of StartAutoTuning: pm.autoTuneTicker = nil; return
LoopExitNil(l) ==
  /\ loops[l].pc = "exit_nil"
  /\ LoopGoto(l, [loops[l] EXCEPT !.pc = "done"])
  /\ autoTuneTicker' = Nil
  /\ UNCHANGED tickers

\* runEviction returns: its deferred ticker.Stop() stops its own ticker.
LoopExitDefer(l) ==
  /\ loops[l].pc = "exit_defer"
  /\ LoopGoto(l, [loops[l] EXCEPT !.pc = "done"])
  /\ tickers' = [tickers EXCEPT ![loops[l].tk] = "stopped"]
  /\ UNCHANGED autoTuneTicker

\* A step of the goroutine of slot l.
LoopStep(l) ==
  \/ LoopEvalTicker(l)
  \/ LoopEvalStop(l)
  \/ LoopTick(l)
  \/ LoopBody(l)
  \/ LoopStopClosed(l)
  \/ LoopExitCheck(l)
  \/ LoopExitStop(l)
  \/ LoopExitNil(l)
  \/ LoopExitDefer(l)

\* A step of a StopAutoTuning call that has begun.
StopStep == StopSend \/ StopTicker \/ StopNil \/ StopMake \/ StopClose

\* ------------------------------------------------------ configuration builder

\* What the builder and the sharding strategies leave alone: the manager, its
\* callers and its loops.
program == <<stores, heaps, pc, loc, ret, held, life, removals, overlap, now, sweep, tuner,
             shardingStrategy, evictCall>>
sharding == <<counter, seeded, shardCall, remembered, window>>

\* The arguments passed to the setters of the builder.
SizeArgs == (0 - 1)..MaxSizeArg
ShardCountArgs == 0..MaxShardCount
FactorArgs == {NaN, Float(0 - 1), Float(0), Float(1)}

\* config.Validate(): the error message, "" for nil.
Validate(config) ==
  IF config.SizeLimit < 0
    THEN "SizeLimit must be non-negative"
  ELSE IF config.MinSize < 0 \/ config.MaxSize < 0
    THEN "MinSize and MaxSize must be non-negative"
  ELSE IF config.MaxSize < config.MinSize
    THEN "MaxSize cannot be less than MinSize"
  ELSE IF config.InitialSize < config.MinSize \/ config.InitialSize > config.MaxSize
    THEN "InitialSize must be between MinSize and MaxSize"
  ELSE IF config.ShardingEnabled /\ config.ShardCount <= 1
    THEN "ShardCount must be greater than 1 if ShardingEnabled is true"
  ELSE IF config.AutoTune /\ FloatLeq(config.AutoTuneFactor, Float(0))
    THEN "AutoTuneFactor must be greater than 0"
  ELSE ""

\* A setter of the builder stores its argument in b.config.
With(config) ==
  /\ builder' = config
  /\ built' = NotBuilt
  /\ UNCHANGED <<program, opsLeft, intBits, sharding>>

WithSizeLimit(sizeLimit) == With([builder EXCEPT !.SizeLimit = sizeLimit])
WithInitialSize(initialSize) == With([builder EXCEPT !.InitialSize = initialSize])
WithMinSize(minSize) == With([builder EXCEPT !.MinSize = minSize])
WithMaxSize(maxSize) == With([builder EXCEPT !.MaxSize = maxSize])
WithAutoTune(autoTune) == With([builder EXCEPT !.AutoTune = autoTune])
WithAutoTuneFactor(factor) == With([builder EXCEPT !.AutoTuneFactor = factor])
WithSharding(enabled, shardCount) ==
  With([builder EXCEPT !.ShardingEnabled = enabled, !.ShardCount = shardCount])

\* b.Build(): PoolConfiguration{} and the error of Validate, or b.config and nil.
Build ==
  /\ built' = IF Validate(builder) # ""
                THEN [called |-> TRUE, err |-> Validate(builder),
                      conf |-> ZeroPoolConfiguration]
                ELSE [called |-> TRUE, err |-> "", conf |-> builder]
  /\ UNCHANGED <<builder, program, opsLeft, intBits, sharding>>

\* ------------------------------------------------------- sharding strategies

\* Strings are the sequences of their bytes: "p" and "specialPool" as pool
\* names, "b" and "0" as keys.
PlainPool == <<112>>
SpecialPool == <<115, 112, 101, 99, 105, 97, 108, 80, 111, 111, 108>>
PoolTypes == {PlainPool, SpecialPool}
ShardKeys == {<<98>>, <<48>>}
ShardCounts == 1..MaxShardCount

\* a ^ b on bytes.
RECURSIVE Xor(_, _)
Xor(a, b) ==
  IF a = 0 THEN b
  ELSE IF b = 0 THEN a
  ELSE ((a + b) % 2) + 2 * Xor(a \div 2, b \div 2)

\* fnv.New32a(): the offset basis 0x811c9dc5, a uint32 in two 16-bit halves.
FnvOffset == [hi |-> 33052, lo |-> 40389]

\* One byte written to the hash: h ^= b, then h *= 0x01000193 (2^24 + 403)
\* modulo 2^32.
FnvStep(h, b) ==
  LET lo == (h.lo - (h.lo % 256)) + Xor(h.lo % 256, b)
      p == lo * 403
  IN [hi |-> (h.hi * 403 + (p \div 65536) + (lo % 256) * 256) % 65536,
      lo |-> p % 65536]

RECURSIVE FnvWrite(_, _)
FnvWrite(h, s) == IF s = <<>> THEN h ELSE FnvWrite(FnvStep(h, Head(s)), Tail(s))

\* hashString(s): the FNV-1a hash of the bytes of s.
hashString(s) == FnvWrite(FnvOffset, s)

\* atomic.AddInt64(&x, d) for 0 <= d < 65536: the sum wraps at 2^63.
Add64(x, d) ==
  LET s4 == x[4] + d
      s3 == x[3] + (s4 \div 65536)
      s2 == x[2] + (s3 \div 65536)
      s1 == x[1] + (s2 \div 65536)
  IN <<s1 % 65536, s2 % 65536, s3 % 65536, s4 % 65536>>

\* The int64 x is negative.
Negative64(x) == x[1] >= 32768

\* x % n of the limbs of x read as a uint64, n > 0.
U64Mod(x, n) ==
  ((((((x[1] % n) * 65536 + x[2]) % n) * 65536 + x[3]) % n) * 65536 + x[4]) % n

\* x % int64(n) of the int64 x: Go's % truncates toward zero, so the remainder
\* of a negative x is zero or negative.
Int64Mod(x, n) ==
  IF ~Negative64(x)
    THEN U64Mod(x, n)
    ELSE 0 - ((U64Mod(<<65535, 65535, 65535, 65535>>, n) + 1 + n - U64Mod(x, n)) % n)

\* The step of the round-robin counter for poolType.
RoundRobinStep(poolType) == IF poolType = SpecialPool THEN 3 ELSE 1

\* (*RoundRobinSharding).GetShardIndex, given the counter after its AddInt64.
RoundRobinShardIndex(c, shardCount) == Int64Mod(c, shardCount)

\* A hash strategy whose index moves with the round-robin counter.
HashShardIndexByCounter(poolType, shardCount, key) ==
  (U32Mod(hashString(poolType \o key), shardCount) + counter[4]) % shardCount

\* (*HashSharding).GetShardIndex: int(hashString(poolType + key) % uint32(shardCount))
HashShardIndex(poolType, shardCount, key) ==
  U32Mod(hashString(poolType \o key), shardCount)

\* The call is recorded as the last call of a strategy.
Called(strategy, poolType, shardCount, key, index) ==
  /\ opsLeft > 0
  /\ opsLeft' = opsLeft - 1
  /\ shardCall' = [strategy |-> strategy, poolType |-> poolType,
                   shardCount |-> shardCount, key |-> key, index |-> index]
  /\ UNCHANGED <<program, intBits, builder, built>>

\* A call other than the remembered one was made.
Between == remembered' = [remembered EXCEPT !.between = @ \/ remembered.set]

\* rr.GetShardIndex(poolType, shardCount, key).  The run of consecutive calls
\* for one pool goes on with this call or begins anew with it.
RoundRobinSharding(poolType, shardCount, key) ==
  LET c == Add64(counter, RoundRobinStep(poolType))
      index == RoundRobinShardIndex(c, shardCount)
      Count(w) == [w EXCEPT !.calls = @ + 1,
                            !.wrapped = @ \/ Negative64(c),
                            !.hits = IF index \in DOMAIN @
                                       THEN [@ EXCEPT ![index] = @ + 1] ELSE @]
      fresh == [NoWindow EXCEPT !.poolType = poolType, !.shardCount = shardCount]
  IN /\ counter' = c
     /\ Called("roundrobin", poolType, shardCount, key, index)
     /\ \/ window' = Count(fresh)
        \/ /\ window.poolType = poolType
           /\ window.shardCount = shardCount
           /\ window' = Count(window)
     /\ Between
     /\ UNCHANGED seeded

\* r.GetShardIndex(poolType, shardCount, key): r.rng.Intn(shardCount) is some
\* number from 0 to shardCount - 1; for "specialPool" the generator is made
\* anew from the seed len(poolType) first.
RandomSharding(poolType, shardCount, key) ==
  \E index \in 0..(shardCount - 1) :
    /\ seeded' = IF poolType = SpecialPool THEN "len" ELSE seeded
    /\ Called("random", poolType, shardCount, key, index)
    /\ Between
    /\ UNCHANGED <<counter, window>>

\* h.GetShardIndex(poolType, shardCount, key).  The call may be remembered, if
\* none is yet; a later call with the same arguments is then noted.
HashSharding(poolType, shardCount, key) ==
  LET index == HashShardIndex(poolType, shardCount, key)
      same == /\ remembered.set
              /\ remembered.poolType = poolType
              /\ remembered.shardCount = shardCount
              /\ remembered.key = key
  IN /\ Called("hash", poolType, shardCount, key, index)
     /\ \/ /\ ~remembered.set
           /\ remembered' = [NoRemembered EXCEPT !.set = TRUE, !.poolType = poolType,
                                                 !.shardCount = shardCount,
                                                 !.key = key, !.index = index]
        \/ /\ ~same
           /\ Between
        \/ /\ same
           /\ remembered' = [remembered EXCEPT !.again = TRUE]
     /\ UNCHANGED <<counter, seeded, window>>

\* pm.getShardIndex(poolName, conf, key) with conf.ShardCount = shardCount.
ManagerSharding(poolName, shardCount, key) ==
  /\ Called("manager", poolName, shardCount, key,
            getShardIndex([ShardCount |-> shardCount], hashString(key)))
  /\ Between
  /\ UNCHANGED <<counter, seeded, window>>

\* ------------------------------------------------------------ specification

Next ==
  \E t \in Threads :
    \/ \E p \in Names, conf \in Configs : BeginAddPool(t, p, conf)
    \/ AddPoolLoad(t)
    \/ AddPoolStorePools(t)
    \/ AddPoolStoreConfig(t)
    \/ AddPoolStoreFactory(t)
    \/ AddPoolFill(t)
    \/ AddPoolInitMetrics(t)
    \/ \E p \in Names : BeginRemovePool(t, p)
    \/ RemovePools(t)
    \/ RemoveConfig(t)
    \/ RemoveFactory(t)
    \/ RemoveMetrics(t)
    \/ RemoveCache(t)
    \/ RemoveMetadata(t)
    \/ BeginAcquire(t, WorkerPool)
    \/ AcquireLoadConfig(t)
    \/ AcquireCacheLoad(t)
    \/ AcquireLoadPools(t)
    \/ AcquireGet(t)
    \/ \E x \in Instances \cup {Nil} : BeginRelease(t, WorkerPool, x)
    \/ ReleaseLoadPools(t)
    \/ ReleaseLoadConfig(t)
    \/ ReleaseReset(t)
    \/ ReleasePut(t)
    \/ MetadataLoadOrStore(t)
    \/ MetadataStore(t)
    \/ MetricLoadOrStore(t)
    \/ MetricAddUsage(t)
    \/ CacheLoadConfig(t)
    \/ CacheSize(t)
    \/ CacheFindOldest(t)
    \/ CacheEvictCache(t)
    \/ CacheEvictMetadata(t)
    \/ CacheStore(t)
    \/ HandleError(t)

Spec == Init /\ [][Next]_vars
SpecRace == InitRace /\ [][Next]_vars

NextEvict ==
  \/ Next
  \/ Tick
  \/ EvictBegin
  \/ EvictRange
  \/ EvictDeleteCache
  \/ EvictDeleteMetadata
  \/ EvictReturn

SpecEvict == InitEvict /\ [][NextEvict]_vars

\* A manager nothing has been registered with, and no call in flight.
FreshManager ==
  /\ pools = EmptyMap
  /\ poolConfig = EmptyMap
  /\ instanceFactories = EmptyMap
  /\ metrics = EmptyMap
  /\ itemMetadata = EmptyMap
  /\ cache = EmptyMap
  /\ poolHeap = [r \in Refs |-> NoPoolObj]
  /\ metricHeap = [r \in Refs |-> ZeroMetrics]
  /\ metaHeap = [r \in Refs |-> LazyMetadata]
  /\ pc = [t \in Threads |-> "idle"]
  /\ loc = [t \in Threads |-> IdleLoc]
  /\ ret = NoRet
  /\ held = [t \in Threads |-> Nil]
  /\ life = [p \in PoolNames |-> "unknown"]
  /\ removals = {}
  /\ overlap = FALSE
  /\ now = 0
  /\ sweep = IdleSweep
  /\ NoTuner

\* NewPoolConfiguration(poolName): the builder with its defaults; the setters
\* and Build are then called in any order.
InitBuild ==
  /\ FreshManager
  /\ NoValues
  /\ opsLeft = 0
  /\ intBits = 64

NextBuild ==
  \/ \E v \in SizeArgs : WithSizeLimit(v)
  \/ \E v \in SizeArgs : WithInitialSize(v)
  \/ \E v \in SizeArgs : WithMinSize(v)
  \/ \E v \in SizeArgs : WithMaxSize(v)
  \/ \E a \in BOOLEAN : WithAutoTune(a)
  \/ \E f \in FactorArgs : WithAutoTuneFactor(f)
  \/ \E e \in BOOLEAN, n \in ShardCountArgs : WithSharding(e, n)
  \/ Build

SpecBuild == InitBuild /\ [][NextBuild]_vars

\* The values of a RoundRobinSharding counter that the calls of a run start
\* from: 0, and 2^63 - 3.
CounterStarts == {Zero64, <<32767, 65535, 65535, 65533>>}

\* The strategies as they are made, or after the round-robin strategy has been
\* called 2^63 - 3 times, on a build with either width of int.
InitShard ==
  /\ FreshManager
  /\ builder = NewPoolConfiguration
  /\ built = NotBuilt
  /\ counter \in CounterStarts
  /\ seeded = "time"
  /\ shardCall = NoShardCall
  /\ remembered = NoRemembered
  /\ window = NoWindow
  /\ shardingStrategy = NoStrategy
  /\ evictCall = NoEvictCall
  /\ opsLeft = MaxShardOps
  /\ intBits \in IntWidths

NextShard ==
  \E poolType \in PoolTypes, shardCount \in ShardCounts, key \in ShardKeys :
    \/ RoundRobinSharding(poolType, shardCount, key)
    \/ RandomSharding(poolType, shardCount, key)
    \/ HashSharding(poolType, shardCount, key)
    \/ ManagerSharding(poolType, shardCount, key)

SpecShard == InitShard /\ [][NextShard]_vars

\* NewPoolManager(conf), conf with AutoTune or a TTL or neither: the loops of the
\* configuration are running; a caller then calls InitializePool,
\* StartAutoTuning and StopAutoTuning, one call after the other.
InitTune ==
  /\ pools = EmptyMap
  /\ poolConfig = EmptyMap
  /\ instanceFactories = EmptyMap
  /\ metrics = EmptyMap
  /\ itemMetadata = EmptyMap
  /\ cache = EmptyMap
  /\ poolHeap = [r \in Refs |-> NoPoolObj]
  /\ metricHeap = [r \in Refs |-> ZeroMetrics]
  /\ metaHeap = [r \in Refs |-> LazyMetadata]
  /\ pc = [t \in Threads |-> "idle"]
  /\ loc = [t \in Threads |-> IdleLoc]
  /\ ret = NoRet
  /\ held = [t \in Threads |-> Nil]
  /\ opsLeft = MaxTuneOps
  /\ life = [p \in PoolNames |-> "unknown"]
  /\ removals = {}
  /\ overlap = FALSE
  /\ intBits = 64
  /\ now = 0
  /\ sweep = IdleSweep
  /\ autoTuneStop = 1
  /\ channels = <<"open">>
  /\ caller = IdleCaller
  /\ NoValues
  /\ \E conf \in TuneConfigs :
       /\ tickers = (IF conf.TTL > 0 THEN <<"running">> ELSE <<>>)
                       \o (IF conf.AutoTune THEN <<"running">> ELSE <<>>)
       /\ autoTuneTicker = (IF ~conf.AutoTune THEN Nil ELSE IF conf.TTL > 0 THEN 2 ELSE 1)
       /\ loops = [l \in LoopIds |->
            IF l = 1 /\ conf.TTL > 0
              THEN [NoLoop EXCEPT !.kind = "evict", !.pc = "eval_stop", !.tk = 1]
            ELSE IF l = SlotsFor(conf) /\ conf.AutoTune
              THEN [NoLoop EXCEPT !.kind = "tune", !.pc = "eval_ticker"]
            ELSE NoLoop]

NextTune ==
  \/ \E p \in PoolNames, conf \in TuneConfigs : InitializePool(p, conf)
  \/ StartAutoTuning
  \/ StopCheck
  \/ StopSend
  \/ StopTicker
  \/ StopNil
  \/ StopMake
  \/ StopClose
  \/ \E l \in LoopIds :
       \/ LoopEvalTicker(l)
       \/ LoopEvalStop(l)
       \/ LoopTick(l)
       \/ LoopBody(l)
       \/ LoopStopClosed(l)
       \/ LoopExitCheck(l)
       \/ LoopExitStop(l)
       \/ LoopExitNil(l)
       \/ LoopExitDefer(l)

\* The scheduler runs every goroutine that can take a step, and a select that
\* keeps finding its stop case ready chooses it in the end (the runtime picks
\* among the ready cases at random).
SpecTune ==
  /\ InitTune
  /\ [][NextTune]_vars
  /\ WF_vars(StopStep)
  /\ \A l \in LoopIds : WF_vars(LoopStep(l))
  /\ \A l \in LoopIds : SF_vars(LoopStopClosed(l))


\* ------------------------------------------------ ForceEvict, AddItemMetadata

\* The keys of pm.itemMetadata: updateMetadata's key is the pool name;
\* AddItemMetadata and ForceEvict take any key, here an item's key too.
ItemKey == "item"
Keys == PoolNames \cup {ItemKey}

\* pm.AddItemMetadata(p, k): pm.itemMetadata.Store(key, &PoolItemMetadata{
\* PoolName: poolName, LastUsed: time.Now(), Status: "Active", ...})
AddItemMetadata(t, p, k) ==
  /\ Begin(t, "AddItemMetadata", p, IdleLoc)
  /\ LET r == NewMetaRef IN
       /\ itemMetadata' = Store(itemMetadata, k, r)
       /\ UNCHANGED <<pools, poolConfig, instanceFactories, metrics, cache,
                      pc, held, life, removals>>
       /\ Heaps(poolHeap, metricHeap,
                [metaHeap EXCEPT ![r] =
                   [PoolName |-> p, Status |-> "Active", Frequency |-> 0, Updates |-> 0,
                    LastUsed |-> now]])

\* pm.itemMetadata holds metadata for key k under pool p: metadata that
\* AddItemMetadata stored with PoolName p, or the metadata that the
\* safelyUpdateMetadata of an AcquireInstance or ReleaseInstance on p created,
\* which updateMetadata keys by the pool name and which has no PoolName.
MetadataUnder(p, k) ==
  /\ Has(itemMetadata, k)
  /\ \/ metaHeap[itemMetadata[k]].PoolName = p
     \/ k = p /\ metaHeap[itemMetadata[k]].PoolName = LazyMetadata.PoolName

\* errors.New("item does not exist in metadata for pool: " + ...)
ErrItemNotInMetadata == "item does not exist in metadata for pool: "

\* A goroutine calls pm.ForceEvict(p, k).
BeginForceEvict(t, p, k) ==
  /\ Begin(t, "ForceEvict", p,
           [IdleLoc EXCEPT !.op = "ForceEvict", !.name = p, !.key = k,
              !.ev.under = MetadataUnder(p, k),
              !.ev.before = <<itemMetadata, cache>>])
  /\ pc' = [pc EXCEPT ![t] = "fe_load"]
  /\ UNCHANGED <<stores, held, life, removals>>
  /\ SameHeaps

\* if metadataVal, ok := pm.itemMetadata.Load(key); ok { if ... &&
\* metadata.PoolName == poolName {...} }; return errors.New(...)
ForceEvictLoad(t) ==
  /\ pc[t] = "fe_load"
  /\ LET k == loc[t].key IN
       IF Has(itemMetadata, k) /\ metaHeap[itemMetadata[k]].PoolName = loc[t].name
         THEN Goto(t, "fe_metadata", loc[t])
         ELSE Return(t, loc[t], PlainError(ErrItemNotInMetadata), Nil)
  /\ UNCHANGED <<stores, life, removals>>
  /\ SameHeaps

\* pm.itemMetadata.Delete(key)
ForceEvictDeleteMetadata(t) ==
  /\ pc[t] = "fe_metadata"
  /\ itemMetadata' = Delete(itemMetadata, loc[t].key)
  /\ Goto(t, "fe_cache", loc[t])
  /\ UNCHANGED <<pools, poolConfig, instanceFactories, metrics, cache, life, removals>>
  /\ SameHeaps

\* pm.cache.Delete(key); return nil
ForceEvictDeleteCache(t) ==
  /\ pc[t] = "fe_cache"
  /\ cache' = Delete(cache, loc[t].key)
  /\ Return(t, loc[t], NoErr, Nil)
  /\ UNCHANGED <<pools, poolConfig, instanceFactories, metrics, itemMetadata, life, removals>>
  /\ SameHeaps

\* The configurations of a run of SpecAdmin: caching with every CacheMaxSize
\* from 0, sharding or not, every InitialSize from 0; each has all its
\* callbacks (OnCreate, OnPut, OnDestroy, OnError) set.
AdminConfigs ==
  { [EnableCaching |-> c, CacheMaxSize |-> IF c THEN m ELSE 0,
     ShardingEnabled |-> s, ShardCount |-> IF s THEN NumShards ELSE 0,
     InitialSize |-> n] :
      c \in BOOLEAN, s \in BOOLEAN, m \in 0..MaxCacheMax, n \in 0..MaxFill }

\* The manager of Init, its callers' calls following one another.
InitAdmin ==
  /\ FreshManager
  /\ opsLeft = MaxAdminOps
  /\ intBits \in IntWidths
  /\ NoValues

NextAdmin ==
  \E t \in Threads :
    \/ \E conf \in AdminConfigs : BeginAddPool(t, WorkerPool, conf)
    \/ AddPoolLoad(t)
    \/ AddPoolStorePools(t)
    \/ AddPoolStoreConfig(t)
    \/ AddPoolStoreFactory(t)
    \/ AddPoolFill(t)
    \/ AddPoolInitMetrics(t)
    \/ BeginAcquire(t, WorkerPool)
    \/ AcquireLoadConfig(t)
    \/ AcquireCacheLoad(t)
    \/ AcquireLoadPools(t)
    \/ AcquireGet(t)
    \/ \E x \in Instances \cup {Nil} : BeginRelease(t, WorkerPool, x)
    \/ ReleaseLoadPools(t)
    \/ ReleaseLoadConfig(t)
    \/ ReleaseReset(t)
    \/ ReleasePut(t)
    \/ MetadataLoadOrStore(t)
    \/ MetadataStore(t)
    \/ MetricLoadOrStore(t)
    \/ MetricAddUsage(t)
    \/ CacheLoadConfig(t)
    \/ CacheSize(t)
    \/ CacheFindOldest(t)
    \/ CacheEvictCache(t)
    \/ CacheEvictMetadata(t)
    \/ CacheStore(t)
    \/ HandleError(t)
    \/ \E p \in PoolNames, k \in Keys : AddItemMetadata(t, p, k)
    \/ \E p \in PoolNames, k \in Keys : BeginForceEvict(t, p, k)
    \/ ForceEvictLoad(t)
    \/ ForceEvictDeleteMetadata(t)
    \/ ForceEvictDeleteCache(t)

SpecAdmin == InitAdmin /\ [][NextAdmin]_vars

\* ------------------------------------------------------ ResizePool, autoTune

\* getPoolCurrentSize(p), getNonShardedPoolSize(p): the number of keys of
\* pm.cache equal to the pool name.
getPoolCurrentSize(p) == IF Has(cache, p) THEN 1 ELSE 0

\* getShardCurrentSize(p, i), getShardSize(p, i): the entries of pm.cache whose
\* key is the pool name and whose value is the int i.  The cache holds
\* instances (addToCache), never an int: the count is 0.
getShardCurrentSize(p, i) == 0

\* getCurrentPoolSize(p, value): the sum of getShardSize over the shards of a
\* []*sync.Pool, getNonShardedPoolSize for a *sync.Pool.
getCurrentPoolSize(p, obj) ==
  IF obj.sharded
    THEN SumOver([i \in ShardIdx |-> getShardCurrentSize(p, i)], 0..(ShardLen(obj) - 1))
    ELSE getPoolCurrentSize(p)

\* newSize := int(float64(currentSize) * factor), clamped: MaxSize if above it,
\* else MinSize if below it.
TunedSize(currentSize, conf) ==
  LET newSize == currentSize * conf.AutoTuneFactor.v IN
    IF newSize > conf.MaxSize THEN conf.MaxSize
    ELSE IF newSize < conf.MinSize THEN conf.MinSize
    ELSE newSize

\* A goroutine calls pm.ResizePool(p, n).
BeginResizePool(t, p, n) ==
  /\ Begin(t, "ResizePool", p,
           [IdleLoc EXCEPT !.op = "ResizePool", !.name = p, !.size = n,
              !.ev.resize = <<n>>, !.ev.was = Was(p),
              !.ev.again = (ret.op = "ResizePool" /\ ret.name = p /\ ret.size = n)])
  /\ pc' = [pc EXCEPT ![t] = "rs_pools"]
  /\ UNCHANGED <<stores, held, life, removals>>
  /\ SameHeaps

\* The call (ResizePool, or the tick that called it) is done: a tick calls
\* OnAutoTune(poolName, newSize) after its ResizePool.
ResizeDone(t, l) ==
  Return(t, IF l.op = "ResizePool" THEN l
            ELSE [l EXCEPT !.ev.onAutoTune = Append(@, l.size)],
         NoErr, Nil)

\* poolVal, ok := pm.pools.Load(poolName); if !ok { log; return }
ResizeLoadPools(t) ==
  /\ pc[t] = "rs_pools"
  /\ IF Has(pools, loc[t].name)
       THEN Goto(t, "rs_config", [loc[t] EXCEPT !.poolRef = pools[loc[t].name]])
       ELSE ResizeDone(t, loc[t])
  /\ UNCHANGED <<stores, life, removals>>
  /\ SameHeaps

\* configVal, _ := pm.poolConfig.Load(poolName); the storage must match the
\* configuration, else the call logs and returns.
ResizeLoadConfig(t) ==
  /\ pc[t] = "rs_config"
  /\ LET p == loc[t].name IN
       IF Has(poolConfig, p) /\ IsSharded(poolConfig[p]) = poolHeap[loc[t].poolRef].sharded
         THEN Goto(t, "rs_measure", [loc[t] EXCEPT !.conf = poolConfig[p], !.shard = 0])
         ELSE ResizeDone(t, [loc[t] EXCEPT !.poolRef = Nil])
  /\ UNCHANGED <<stores, life, removals>>
  /\ SameHeaps

\* currentSize := pm.getShardCurrentSize(poolName, i) for shard i of a sharded
\* pool, pm.getPoolCurrentSize(poolName) for one that is not; after the last
\* shard the call logs and returns.
ResizeMeasure(t) ==
  /\ pc[t] = "rs_measure"
  /\ LET l == loc[t]
         obj == poolHeap[l.poolRef]
         cur == IF obj.sharded THEN getShardCurrentSize(l.name, l.shard)
                ELSE getPoolCurrentSize(l.name)
     IN IF l.shard >= ShardLen(obj)
          THEN ResizeDone(t, [l EXCEPT !.poolRef = Nil])
          ELSE Goto(t, IF cur < l.size THEN "rs_put"
                       ELSE IF cur > l.size THEN "rs_get" ELSE "rs_measure",
                    [l EXCEPT !.j = cur, !.ev.measured = Append(@, cur),
                              !.shard = IF cur = l.size THEN @ + 1 ELSE @])
  /\ UNCHANGED <<stores, life, removals>>
  /\ SameHeaps

\* The loop of a shard or of the pool is done when j has reached newSize.
ResizeNext(l, j) ==
  IF j = l.size THEN [l EXCEPT !.j = j, !.shard = @ + 1] ELSE [l EXCEPT !.j = j]

\* for j := currentSize; j < newSize; j++ { instance := pm.createInstance(
\* poolName); pool.Put(instance) }: one iteration.
ResizePut(t) ==
  /\ pc[t] = "rs_put"
  /\ LET l == loc[t]
         x == NewInstance
     IN /\ Goto(t, IF l.j + 1 = l.size THEN "rs_measure" ELSE "rs_put",
                [ResizeNext(l, l.j + 1) EXCEPT !.ev.created = @ + 1])
        /\ UNCHANGED <<stores, life, removals>>
        /\ Heaps([poolHeap EXCEPT ![l.poolRef].fl[l.shard] = BagAdd(@, x)],
                 metricHeap, metaHeap)

\* One iteration of the shrinking loop, written as a release: Get, then
\* recordMetric(poolName, "put") on the pool's metrics.
ResizeGetAsPut(t) ==
  /\ pc[t] = "rs_get"
  /\ LET l == loc[t]
         b == poolHeap[l.poolRef].fl[l.shard]
     IN \E got \in PoolGet(b) :
          LET x == IF got = Nil THEN NewInstance ELSE got IN
            /\ Goto(t, IF l.j - 1 = l.size THEN "rs_measure" ELSE "rs_get",
                    [ResizeNext(l, l.j - 1) EXCEPT
                       !.ev.discarded = @ \cup {x},
                       !.ev.created = IF got = Nil THEN @ + 1 ELSE @])
            /\ UNCHANGED <<stores, life, removals>>
            /\ Heaps(IF got = Nil THEN poolHeap
                     ELSE [poolHeap EXCEPT ![l.poolRef].fl[l.shard] = BagRemove(@, x)],
                     IF Has(metrics, l.name)
                       THEN [metricHeap EXCEPT ![metrics[l.name]].TotalPuts = @ + 1,
                                               ![metrics[l.name]].CurrentUsage = @ - 1]
                       ELSE metricHeap,
                     metaHeap)

\* for j := currentSize; j > newSize; j-- { pool.Get() }: one iteration.  Get
\* pops an instance, or has New create one if the free-list is empty; the
\* instance is dropped.
ResizeGet(t) ==
  /\ pc[t] = "rs_get"
  /\ LET l == loc[t]
         b == poolHeap[l.poolRef].fl[l.shard]
     IN \E got \in PoolGet(b) :
          LET x == IF got = Nil THEN NewInstance ELSE got IN
            /\ Goto(t, IF l.j - 1 = l.size THEN "rs_measure" ELSE "rs_get",
                    [ResizeNext(l, l.j - 1) EXCEPT
                       !.ev.discarded = @ \cup {x},
                       !.ev.created = IF got = Nil THEN @ + 1 ELSE @])
            /\ UNCHANGED <<stores, life, removals>>
            /\ Heaps(IF got = Nil THEN poolHeap
                     ELSE [poolHeap EXCEPT ![l.poolRef].fl[l.shard] = BagRemove(@, x)],
                     metricHeap, metaHeap)

\* A tick of the auto-tuner reaches pool p: in the loop of autoTune(p, config)
\* (kind "autoTune"), or in the Range of autoTunePoolSize, which the loop of
\* StartAutoTuning calls (kind "autoTunePoolSize").
BeginTune(t, kind, p) ==
  /\ Has(pools, p)
  /\ Begin(t, kind, p,
           [IdleLoc EXCEPT !.op = kind, !.name = p, !.ev.was = Was(p)])
  /\ pc' = [pc EXCEPT ![t] = "at_size"]
  /\ UNCHANGED <<stores, held, life, removals>>
  /\ SameHeaps

\* A tick that does not skip a pool whose current size is 0.
TuneSizeOfEmpty(t) ==
  /\ pc[t] = "at_size"
  /\ LET l == loc[t]
         p == l.name
         cur == IF l.op = "autoTune" THEN getPoolCurrentSize(p)
                ELSE getCurrentPoolSize(p, poolHeap[pools[p]])
         m == [l EXCEPT !.ev.measured = <<cur>>]
     IN IF ~Has(pools, p) \/ ~Has(poolConfig, p) \/ ~poolConfig[p].AutoTune
             \/ TunedSize(cur, poolConfig[p]) = cur
          THEN Return(t, m, NoErr, Nil)
          ELSE Goto(t, "rs_pools",
                    [m EXCEPT !.size = TunedSize(cur, poolConfig[p]),
                              !.ev.resize = <<TunedSize(cur, poolConfig[p])>>])
  /\ UNCHANGED <<stores, life, removals>>
  /\ SameHeaps

\* autoTune: currentSize := pm.GetPoolSize(poolName); autoTunePoolSize:
\* conf from pm.poolConfig, conf.AutoTune, currentSize := pm.getCurrentPoolSize(
\* poolName, value).  A current size of 0 is skipped; otherwise newSize is
\* computed and, if it differs, ResizePool(poolName, newSize) is called.
\* autoTune uses the configuration it was started with, which InitializePool
\* and NewPoolManager also store in pm.poolConfig.
TuneSize(t) ==
  /\ pc[t] = "at_size"
  /\ LET l == loc[t]
         p == l.name
         cur == IF l.op = "autoTune" THEN getPoolCurrentSize(p)
                ELSE getCurrentPoolSize(p, poolHeap[pools[p]])
         m == [l EXCEPT !.ev.measured = <<cur>>]
     IN IF ~Has(pools, p) \/ ~Has(poolConfig, p) \/ ~poolConfig[p].AutoTune \/ cur = 0
             \/ TunedSize(cur, poolConfig[p]) = cur
          THEN Return(t, m, NoErr, Nil)
          ELSE Goto(t, "rs_pools",
                    [m EXCEPT !.size = TunedSize(cur, poolConfig[p]),
                              !.ev.resize = <<TunedSize(cur, poolConfig[p])>>])
  /\ UNCHANGED <<stores, life, removals>>
  /\ SameHeaps

\* The current usages a run of SpecResize starts with.
Usages == {0, 3, 8}

\* The configurations of the pool of a run of SpecResize: auto-tuned, with the
\* builder's MinSize and MaxSize and the builder's AutoTuneFactor of 1.0 or a
\* factor of 2.0; caching,
\* sharding and an InitialSize or none.
ResizeConfigs ==
  { [EnableCaching |-> c, CacheMaxSize |-> IF c THEN MaxCacheMax ELSE 0,
     ShardingEnabled |-> s, ShardCount |-> IF s THEN NumShards ELSE 0,
     InitialSize |-> n, AutoTune |-> TRUE, AutoTuneFactor |-> Float(f),
     MinSize |-> NewPoolConfiguration.MinSize,
     MaxSize |-> NewPoolConfiguration.MaxSize] :
      c \in BOOLEAN, s \in BOOLEAN, n \in {0, MaxInitialSize}, f \in {1, 2} }

\* The manager after AddPool(WorkerPool, factory, conf) and, for a pool without
\* caching, after u calls of AcquireInstance by goroutines that still hold
\* their instances: the free-list has lost up to InitialSize instances (in
\* shard 0, say), the counters and the metadata have counted the calls.
InitResize ==
  /\ \E conf \in ResizeConfigs, u \in Usages :
       /\ conf.EnableCaching => u = 0
       /\ pools = [p \in {WorkerPool} |-> 1]
       /\ poolConfig = [p \in {WorkerPool} |-> conf]
       /\ instanceFactories = [p \in {WorkerPool} |-> TRUE]
       /\ metrics = [p \in {WorkerPool} |-> 1]
       /\ itemMetadata = IF u > 0 THEN [p \in {WorkerPool} |-> 1] ELSE EmptyMap
       /\ cache = EmptyMap
       /\ poolHeap = [r \in Refs |->
            IF r = 1
              THEN [sharded |-> IsSharded(conf),
                    fl |-> [sh \in ShardIdx |->
                             [i \in Instances |->
                                IF sh = 0 /\ u = 0 /\ i <= conf.InitialSize
                                  THEN 1 ELSE 0]]]
              ELSE NoPoolObj]
       /\ metricHeap = [r \in Refs |->
            IF r = 1 THEN [ZeroMetrics EXCEPT !.TotalGets = u, !.CurrentUsage = u]
            ELSE ZeroMetrics]
       /\ metaHeap = [r \in Refs |->
            IF r = 1 /\ u > 0 THEN [LazyMetadata EXCEPT !.Frequency = u, !.Updates = u]
            ELSE LazyMetadata]
  /\ pc = [t \in Threads |-> "idle"]
  /\ loc = [t \in Threads |-> IdleLoc]
  /\ ret = NoRet
  /\ held = [t \in Threads |-> Nil]
  /\ opsLeft = MaxResizeOps
  /\ life = [p \in PoolNames |-> IF p = WorkerPool THEN "registered" ELSE "unknown"]
  /\ removals = {}
  /\ overlap = FALSE
  /\ intBits = 64
  /\ now = 0
  /\ sweep = IdleSweep
  /\ NoTuner
  /\ NoValues

NextResize ==
  \E t \in Threads :
    \/ \E p \in PoolNames, n \in 0..MaxResize : BeginResizePool(t, p, n)
    \/ ResizeLoadPools(t)
    \/ ResizeLoadConfig(t)
    \/ ResizeMeasure(t)
    \/ ResizePut(t)
    \/ ResizeGet(t)
    \/ \E kind \in {"autoTune", "autoTunePoolSize"} : BeginTune(t, kind, WorkerPool)
    \/ TuneSize(t)
    \/ BeginAcquire(t, WorkerPool)
    \/ AcquireLoadConfig(t)
    \/ AcquireCacheLoad(t)
    \/ AcquireLoadPools(t)
    \/ AcquireGet(t)
    \/ \E x \in Instances \cup {Nil} : BeginRelease(t, WorkerPool, x)
    \/ ReleaseLoadPools(t)
    \/ ReleaseLoadConfig(t)
    \/ ReleaseReset(t)
    \/ ReleasePut(t)
    \/ MetadataLoadOrStore(t)
    \/ MetadataStore(t)
    \/ MetricLoadOrStore(t)
    \/ MetricAddUsage(t)
    \/ CacheLoadConfig(t)
    \/ CacheSize(t)
    \/ CacheFindOldest(t)
    \/ CacheEvictCache(t)
    \/ CacheEvictMetadata(t)
    \/ CacheStore(t)
    \/ HandleError(t)

SpecResize == InitResize /\ [][NextResize]_vars

\* ------------------------------------------------------ SmartEvictionPolicy

\* The keys ShouldEvict is called with, and their characters.
PolicyKeys == {"item", "keep", "keep-", "keep-item"}
KeyText(k) ==
  IF k = "item" THEN <<"i", "t", "e", "m">>
  ELSE IF k = "keep" THEN <<"k", "e", "e", "p">>
  ELSE IF k = "keep-" THEN <<"k", "e", "e", "p", "-">>
  ELSE <<"k", "e", "e", "p", "-", "i", "t", "e", "m">>

\* len(key) >= 5 && key[:5] == "keep-"
HasKeepPrefix(k) ==
  Len(KeyText(k)) >= 5 /\ SubSeq(KeyText(k), 1, 5) = <<"k", "e", "e", "p", "-">>

\* SmartEvictionPolicy.ShouldEvict(key, metadata) of policy p, time.Since(
\* metadata.LastUsed) being since.
SmartShouldEvict(p, k, since, frequency) ==
  IF HasKeepPrefix(k) THEN FALSE
  ELSE \/ p.TTL > 0 /\ since > p.TTL
       \/ p.MaxIdleTime > 0 /\ since > p.MaxIdleTime
       \/ p.MinFrequency > 0 /\ frequency < p.MinFrequency

\* The policies: each threshold zero or positive.
SmartPolicies ==
  [TTL : {0, TTL}, MaxIdleTime : {0, TTL}, MinFrequency : {0, MaxFrequency}]

\* p.ShouldEvict(k, metadata) is called at time now for metadata last used at
\* lastUsed and used frequency times.
ShouldEvictCall(p, k, lastUsed, frequency) ==
  /\ lastUsed <= now
  /\ evictCall' = [called |-> TRUE, policy |-> p, key |-> k, LastUsed |-> lastUsed,
                   Frequency |-> frequency, at |-> now,
                   result |-> SmartShouldEvict(p, k, now - lastUsed, frequency)]
  /\ UNCHANGED <<stores, heaps, pc, loc, ret, held, life, removals, overlap, now, sweep,
                 tuner, shardingStrategy, opsLeft, intBits, builder, built, sharding>>

\* A manager nothing is registered with; a policy is made and asked about
\* metadata of any age and frequency while time passes.
InitPolicy ==
  /\ FreshManager
  /\ NoValues
  /\ opsLeft = 0
  /\ intBits = 64

NextPolicy ==
  \/ Tick
  \/ \E p \in SmartPolicies, k \in PolicyKeys, lastUsed \in 0..MaxNow,
        frequency \in 0..MaxFrequency : ShouldEvictCall(p, k, lastUsed, frequency)

SpecPolicy == InitPolicy /\ [][NextPolicy]_vars

\* ------------------------------------------- the evictor beside other pools

\* The manager with a TTLEvictionPolicy and its evictor, started for
\* WorkerPool; goroutines also call AddItemMetadata for items of any pool.
InitSweep ==
  /\ pools = EmptyMap
  /\ poolConfig = EmptyMap
  /\ instanceFactories = EmptyMap
  /\ metrics = EmptyMap
  /\ itemMetadata = EmptyMap
  /\ cache = EmptyMap
  /\ poolHeap = [r \in Refs |-> NoPoolObj]
  /\ metricHeap = [r \in Refs |-> ZeroMetrics]
  /\ metaHeap = [r \in Refs |-> LazyMetadata]
  /\ pc = [t \in Threads |-> "idle"]
  /\ loc = [t \in Threads |-> IdleLoc]
  /\ ret = NoRet
  /\ held = [t \in Threads |-> Nil]
  /\ opsLeft = MaxSweepOps
  /\ life = [p \in PoolNames |-> "unknown"]
  /\ removals = {}
  /\ overlap = FALSE
  /\ intBits = 64
  /\ now = 0
  /\ sweep = IdleSweep
  /\ NoTuner
  /\ NoValues

NextSweep ==
  \/ NextEvict
  \/ \E t \in Threads, p \in PoolNames, k \in Keys : AddItemMetadata(t, p, k)

SpecSweep == InitSweep /\ [][NextSweep]_vars

\* -------------------------------------------------------------- Reset, Clear

\* A goroutine calls pm.Reset(p).
BeginReset(t, p) ==
  /\ Begin(t, "Reset", p, [IdleLoc EXCEPT !.op = "Reset", !.name = p])
  /\ pc' = [pc EXCEPT ![t] = "reset_load"]
  /\ UNCHANGED <<stores, held, life, removals>>
  /\ SameHeaps

\* Reset: if _, ok := pm.pools.Load(poolName); ok { ... }; else the call
\* returns errors.New("pool does not exist: " + poolName).
ResetLoad(t) ==
  /\ pc[t] = "reset_load"
  /\ IF Has(pools, loc[t].name)
       THEN Goto(t, "reset_delete", loc[t])
       ELSE Return(t, loc[t], PlainError(ErrPoolDoesNotExist), Nil)
  /\ UNCHANGED <<stores, life, removals>>
  /\ SameHeaps

\* Reset: pm.pools.Delete(poolName); return nil
ResetDelete(t) ==
  /\ pc[t] = "reset_delete"
  /\ pools' = Delete(pools, loc[t].name)
  /\ Return(t, loc[t], NoErr, Nil)
  /\ life' = [life EXCEPT ![loc[t].name] = "unknown"]
  /\ UNCHANGED <<poolConfig, instanceFactories, metrics, itemMetadata, cache, removals>>
  /\ SameHeaps

\* A goroutine calls pm.Clear().
BeginClear(t) ==
  /\ Begin(t, "Clear", "", [IdleLoc EXCEPT !.op = "Clear"])
  /\ pc' = [pc EXCEPT ![t] = "clear_range"]
  /\ UNCHANGED <<stores, held, life, removals>>
  /\ SameHeaps

\* Clear: pm.pools.Range(func(key, value) bool { pm.pools.Delete(key); return
\* true }): one key of the map is visited and deleted, in any order, until none
\* is left.
ClearRange(t) ==
  /\ pc[t] = "clear_range"
  /\ IF DOMAIN pools = {}
       THEN /\ Return(t, loc[t], NoErr, Nil)
            /\ UNCHANGED <<stores, life>>
       ELSE \E k \in DOMAIN pools :
              /\ pools' = Delete(pools, k)
              /\ Goto(t, "clear_range", loc[t])
              /\ life' = [life EXCEPT ![k] = "unknown"]
              /\ UNCHANGED <<poolConfig, instanceFactories, metrics, itemMetadata, cache>>
  /\ UNCHANGED removals
  /\ SameHeaps

\* A manager nothing is registered with; goroutines call AddPool, RemovePool,
\* Reset, Clear, AcquireInstance and ReleaseInstance, one call after another.
InitReset ==
  /\ pools = EmptyMap
  /\ poolConfig = EmptyMap
  /\ instanceFactories = EmptyMap
  /\ metrics = EmptyMap
  /\ itemMetadata = EmptyMap
  /\ cache = EmptyMap
  /\ poolHeap = [r \in Refs |-> NoPoolObj]
  /\ metricHeap = [r \in Refs |-> ZeroMetrics]
  /\ metaHeap = [r \in Refs |-> LazyMetadata]
  /\ pc = [t \in Threads |-> "idle"]
  /\ loc = [t \in Threads |-> IdleLoc]
  /\ ret = NoRet
  /\ held = [t \in Threads |-> Nil]
  /\ opsLeft = MaxResetOps
  /\ life = [p \in PoolNames |-> "unknown"]
  /\ removals = {}
  /\ overlap = FALSE
  /\ intBits = 64
  /\ now = 0
  /\ sweep = IdleSweep
  /\ NoTuner
  /\ NoValues

NextReset ==
  \/ Next
  \/ \E t \in Threads :
       \/ \E p \in PoolNames : BeginReset(t, p)
       \/ ResetLoad(t)
       \/ ResetDelete(t)
       \/ BeginClear(t)
       \/ ClearRange(t)

SpecReset == InitReset /\ [][NextReset]_vars

\* ------------------------------------------------------- SetShardingStrategy

\* A ShardingStrategy of the caller's: its GetShardIndex returns index i for
\* every pool, shard count and key.
FixedSharding(i) == [kind |-> "fixed", index |-> i]

\* pm.SetShardingStrategy(strategy): pm.shardingStrategy = strategy, and a log
\* line.  The caller remembers the free-lists of WorkerPool as they were.
SetShardingStrategy(strategy) ==
  /\ Running
  /\ \A t \in Threads : pc[t] = "idle"
  /\ opsLeft > 0
  /\ opsLeft' = opsLeft - 1
  /\ shardingStrategy' = strategy
  /\ ret' = [NoRet EXCEPT !.op = "SetShardingStrategy", !.name = WorkerPool,
                          !.ev.was = Was(WorkerPool)]
  /\ UNCHANGED <<stores, heaps, pc, loc, held, life, removals, overlap, intBits,
                 evictor, tuner, builder, built, sharding, evictCall>>

\* The manager of Init, its callers' calls following one another.
InitStrategy ==
  /\ FreshManager
  /\ opsLeft = MaxStrategyOps
  /\ intBits \in IntWidths
  /\ NoValues

NextStrategy ==
  \/ \E i \in ShardIdx : SetShardingStrategy(FixedSharding(i))
  \/ \E t \in Threads :
       \/ \E conf \in Configs : BeginAddPool(t, WorkerPool, conf)
       \/ AddPoolLoad(t)
       \/ AddPoolStorePools(t)
       \/ AddPoolStoreConfig(t)
       \/ AddPoolStoreFactory(t)
       \/ AddPoolFill(t)
       \/ AddPoolInitMetrics(t)
       \/ BeginAcquire(t, WorkerPool)
       \/ AcquireLoadConfig(t)
       \/ AcquireCacheLoad(t)
       \/ AcquireLoadPools(t)
       \/ AcquireGet(t)
       \/ \E x \in Instances \cup {Nil} : BeginRelease(t, WorkerPool, x)
       \/ ReleaseLoadPools(t)
       \/ ReleaseLoadConfig(t)
       \/ ReleaseReset(t)
       \/ ReleasePut(t)
       \/ MetadataLoadOrStore(t)
       \/ MetadataStore(t)
       \/ MetricLoadOrStore(t)
       \/ MetricAddUsage(t)
       \/ CacheLoadConfig(t)
       \/ CacheSize(t)
       \/ CacheFindOldest(t)
       \/ CacheEvictCache(t)
       \/ CacheEvictMetadata(t)
       \/ CacheStore(t)
       \/ HandleError(t)

SpecStrategy == InitStrategy /\ [][NextStrategy]_vars

\* ------------------------------------------------ AddPool beside the loops

\* A manager made without AutoTune and TTL: NewPoolManager has started no loop.
InitAddTune ==
  /\ FreshManager
  /\ opsLeft = MaxTuneOps
  /\ intBits = 64
  /\ NoValues

\* Goroutines call AddPool with configurations that ask for auto-tuning and
\* for a TTL, or not, while the caller of InitializePool, StartAutoTuning and
\* StopAutoTuning and the loops they started go on.
NextAddTune ==
  \/ \E t \in Threads :
       \/ \E conf \in TuneConfigs : BeginAddPool(t, WorkerPool, conf)
       \/ AddPoolLoad(t)
       \/ AddPoolStorePools(t)
       \/ AddPoolStoreConfig(t)
       \/ AddPoolStoreFactory(t)
       \/ AddPoolFill(t)
       \/ AddPoolInitMetrics(t)
  \/ NextTune

SpecAddTune == InitAddTune /\ [][NextAddTune]_vars

\* -------------------------------------------------------------------- claims

\* No call is in flight.
Quiescent == \A t \in Threads : pc[t] = "idle"

\* The PoolMetrics that pm.metrics holds for name p.
MetricsOf(p) == metricHeap[metrics[p]]

\* C1: an instance that a caller acquired and has not released is held by that
\* caller alone: no two callers hold the same instance at the same time.
ExclusiveOwnership ==
  \A t, u \in Threads : (t # u /\ held[t] # Nil) => held[u] # held[t]

\* C2: CurrentUsage of a pool is never negative, acquires served from the cache
\* included (stated for a pool that RemovePool was never called on, so that
\* only acquires and releases have moved the counter).
UsageNeverNegative ==
  \A p \in PoolNames :
    (Has(metrics, p) /\ p \notin removals) => MetricsOf(p).CurrentUsage >= 0

\* C3: when no call is in flight, CurrentUsage = TotalGets - TotalPuts for every
\* pool that has metrics.
UsageIsGetsMinusPuts ==
  Quiescent =>
    \A p \in DOMAIN metrics :
      MetricsOf(p).CurrentUsage = MetricsOf(p).TotalGets - MetricsOf(p).TotalPuts

\* C3, witness: calls have returned and left a pool with gets and puts counted.
UsageIsGetsMinusPutsWitness ==
  /\ Quiescent
  /\ Has(metrics, WorkerPool)
  /\ MetricsOf(WorkerPool).TotalGets >= 1
  /\ MetricsOf(WorkerPool).TotalPuts >= 1

\* C4: workers that acquire from and release to a pool registered once with
\* sharding and caching leave CurrentUsage at exactly 0 when every acquired
\* instance has been released.
WorkersLeaveUsageZero ==
  ( /\ Quiescent
    /\ life[WorkerPool] = "registered"
    /\ WorkerPool \notin removals
    /\ Has(poolConfig, WorkerPool)
    /\ poolConfig[WorkerPool].EnableCaching
    /\ IsSharded(poolConfig[WorkerPool])
    /\ \A t \in Threads : held[t] = Nil )
  => (Has(metrics, WorkerPool) /\ MetricsOf(WorkerPool).CurrentUsage = 0)

\* Instance x can be handed to an acquirer: the cache or a free-list of a
\* registered pool holds it.
Visible(x) ==
  \/ x \in Range(cache)
  \/ \E k \in DOMAIN pools, sh \in ShardIdx : poolHeap[pools[k]].fl[sh][x] > 0

\* C5: a release resets the instance before the instance becomes visible to an
\* acquirer: while a release has not yet called Reset, neither the cache nor a
\* free-list holds the instance it releases.
ResetBeforeVisible ==
  \A t \in Threads :
    (pc[t] # "idle" /\ loc[t].op = "ReleaseInstance" /\ loc[t].inst # Nil
       /\ loc[t].resets = 0)
    => ~Visible(loc[t].inst)

\* C6: AddPool for a name that is registered fails with the pool-already-exists
\* error.
DuplicateAddPoolFails ==
  (ret.op = "AddPool" /\ ret.pre = "registered")
  => ret.err = NewPoolError("add", ErrPoolAlreadyExists)

\* C7: AcquireInstance called after RemovePool(name) returned, and before name
\* is added again, returns no instance and the pool-does-not-exist error.
AcquireAfterRemoveFails ==
  (ret.op = "AcquireInstance" /\ ret.pre \in {"removed", "removedUsed"})
  => (ret.inst = Nil /\ ret.err.msg = ErrPoolDoesNotExist)

\* C8: once RemovePool(name) and every call on name that overlapped it have
\* returned (and no call on name has begun since), none of the six stores holds
\* an entry for name.
RemovedPoolHasNoEntry ==
  \A p \in PoolNames : (life[p] = "removed" /\ InCall(p) = {}) => NoEntry(p)

\* What the six stores hold for name q, the objects behind the pointers included.
EntriesOf(q) ==
  [pool |-> {poolHeap[pools[k]] : k \in DOMAIN pools \cap {q}},
   config |-> {poolConfig[k] : k \in DOMAIN poolConfig \cap {q}},
   factory |-> {instanceFactories[k] : k \in DOMAIN instanceFactories \cap {q}},
   metrics |-> {metricHeap[metrics[k]] : k \in DOMAIN metrics \cap {q}},
   cache |-> {cache[k] : k \in DOMAIN cache \cap {q}},
   metadata |-> {metaHeap[itemMetadata[k]] : k \in DOMAIN itemMetadata \cap {q}}]

RemoveLabels ==
  {"rm_pools", "rm_config", "rm_factory", "rm_metrics", "rm_cache", "rm_metadata"}

\* A RemovePool that has returned gave no error and left no entry for its name,
\* whether or not the name was registered when it was called.
RemovePoolReturnsNil ==
  ret.op = "RemovePool" => (ret.err = NoErr /\ NoEntry(ret.name))

\* No step of RemovePool(name) changes what the stores hold for another name.
RemovePoolFrame ==
  \A t \in Threads :
    (pc[t] \in RemoveLabels /\ pc'[t] # pc[t])
    => \A q \in PoolNames \ {loc[t].name} : EntriesOf(q)' = EntriesOf(q)

\* C9: RemovePool never returns an error, for a registered name, an unregistered
\* name or a name removed before; when it has returned the stores hold no entry
\* for the name (the state one call leaves), and the entries of every other
\* pool are as they were.
RemovePoolIdempotent == []RemovePoolReturnsNil /\ [][RemovePoolFrame]_vars

\* C9, witness: a RemovePool of a name that no store held has returned, while
\* another pool is registered and has a cache entry and metadata.
RemovePoolIdempotentWitness ==
  /\ ret.op = "RemovePool"
  /\ ret.absent
  /\ \E q \in PoolNames \ {ret.name} :
       /\ Has(pools, q) /\ Has(poolConfig, q) /\ Has(instanceFactories, q)
       /\ Has(metrics, q) /\ Has(cache, q) /\ Has(itemMetadata, q)

\* C10: AcquireInstance on a registered pool returns an instance and no error.
AcquireAlwaysReturnsInstance ==
  (ret.op = "AcquireInstance" /\ ret.pre = "registered")
  => (ret.err = NoErr /\ ret.inst # Nil)

\* The evictor's sweep or the cache's evict-oldest step is about to remove, or
\* has half removed, the cache entry and the metadata of key k.
Evicting(k) ==
  \/ sweep.pc \in {"del_cache", "del_metadata"} /\ sweep.key = k
  \/ \E t \in Threads :
       pc[t] \in {"atc_evict_cache", "atc_evict_metadata"} /\ loc[t].name = k

\* The item of key k is in use: its metadata says Active and a caller holds an
\* instance acquired under k (callers acquire from WorkerPool only).
InUse(k) ==
  /\ Has(itemMetadata, k)
  /\ metaHeap[itemMetadata[k]].Status = "Active"
  /\ k = WorkerPool
  /\ \E t \in Threads : held[t] # Nil

\* C11: neither an evictor sweep nor the cache's evict-oldest step removes the
\* metadata or the cache entry of an item that is in use.
NoEvictionInUse == \A k \in PoolNames : Evicting(k) => ~InUse(k)

\* C20: when a sweep of the evictor with a TTL policy ends, every key whose
\* last use was older than the TTL when the sweep began has lost its metadata
\* and its cache entry and its pool's TotalEvicts is one higher; every key
\* last used at the time of the sweep has kept its metadata and its cache entry
\* and its pool's TotalEvicts is as it was.
TTLSweepEvictsExpired ==
  sweep.pc = "done" =>
    /\ \A k \in sweep.expired :
         /\ ~Has(itemMetadata, k)
         /\ ~Has(cache, k)
         /\ EvictMetric(k) = sweep.evicts[k] + 1
    /\ \A k \in sweep.kept :
         /\ Has(itemMetadata, k)
         /\ (k \in sweep.cached => Has(cache, k))
         /\ EvictMetric(k) = sweep.evicts[k]

\* pm's ticker and channel fields, the tickers and the channels.
TunerState == <<autoTuneTicker, autoTuneStop, tickers, channels>>

\* C12: a StopAutoTuning called right after a StopAutoTuning, or called when no
\* loop is running, does not panic; called when no loop is running it sends no
\* signal and leaves the ticker and channel fields, the tickers and the
\* channels as they were.
StopIsIdempotent ==
  caller.op = "StopAutoTuning" =>
    /\ (caller.noLoop \/ caller.prev = "StopAutoTuning") => caller.pc # "panic"
    /\ caller.noLoop => TunerState = caller.snap

\* C13: a loop that StartAutoTuning started after a StopAutoTuning waits on an
\* open channel and does not leave its loop before StopAutoTuning is called
\* again.
StopSignalDoesNotLeak ==
  \A l \in LoopIds :
    (loops[l].kind = "start" /\ loops[l].afterStop /\ ~loops[l].stopSince)
    => /\ loops[l].pc \notin {"exit_check", "exit_stop", "exit_nil", "done"}
       /\ loops[l].pc = "wait" => channels[loops[l].ch] = "open"

\* C14: when StopAutoTuning, called while an auto-tuner loop and an evictor loop
\* were running, has returned, each loop that is still running processes no
\* further tick and eventually returns (unless the process panics).
LoopsStopOnSignal ==
  /\ [](\A l \in LoopIds : loops[l].stopped => ~loops[l].worked)
  /\ \A l \in LoopIds : (loops[l].stopped ~> (loops[l].pc = "done" \/ Crashed))

\* C15: when StopAutoTuning finds the ticker while a loop is processing a tick,
\* neither that loop nor the caller of StopAutoTuning panics.
StopDuringTickIsSafe ==
  caller.op = "StopAutoTuning" =>
    \A l \in caller.busy : loops[l].pc # "panic" /\ caller.pc # "panic"

\* min_size <= initial_size <= max_size with non-negative sizes, shard_count > 1
\* whenever sharding is enabled, auto_tune_factor > 0 whenever auto-tuning is.
ValidAsSpecified(config) ==
  /\ config.SizeLimit >= 0
  /\ config.MinSize >= 0
  /\ config.MaxSize >= 0
  /\ config.MinSize <= config.InitialSize
  /\ config.InitialSize <= config.MaxSize
  /\ config.ShardingEnabled => config.ShardCount > 1
  /\ config.AutoTune => FloatGt(config.AutoTuneFactor, Float(0))

\* C16: Build succeeds exactly when the configuration of the builder is valid
\* as specified, and then returns that configuration; otherwise it returns an
\* error and the zero configuration.
BuildSucceedsExactlyWhenValid ==
  built.called =>
    /\ (built.err = "") <=> ValidAsSpecified(builder)
    /\ built.err = "" => built.conf = builder
    /\ built.err # "" => built.conf = ZeroPoolConfiguration

\* C17: the index that a sharding strategy or the manager's own routing
\* returns is at least 0 and less than the shard count.
ShardIndexInRange ==
  shardCall.strategy # "none" =>
    (0 <= shardCall.index /\ shardCall.index < shardCall.shardCount)

\* The last call went to the hash strategy with the remembered arguments.
SameAsRemembered ==
  /\ remembered.set
  /\ shardCall.strategy = "hash"
  /\ shardCall.poolType = remembered.poolType
  /\ shardCall.shardCount = remembered.shardCount
  /\ shardCall.key = remembered.key

RoundRobinVisitsEvenly ==
  (window.calls > 0 /\ ~window.wrapped /\ window.calls % window.shardCount = 0) =>
    \A i \in 0..(window.shardCount - 1) :
      LET n == window.calls \div window.shardCount IN
        window.hits[i] >= n - 1 /\ window.hits[i] <= n + 1


\* C21: ForceEvict(p, k), called when pm.itemMetadata holds metadata for k under
\* pool p (stored by AddItemMetadata, or created by an acquire or a release on
\* p), returns nil and leaves neither the metadata nor a cache entry of k;
\* called when it holds none, returns the error and leaves both maps as they were.
ForceEvictRemovesOrFails ==
  ret.op = "ForceEvict" =>
    IF ret.ev.under
      THEN ret.err = NoErr /\ ~Has(itemMetadata, ret.key) /\ ~Has(cache, ret.key)
      ELSE /\ ret.err = PlainError(ErrItemNotInMetadata)
           /\ <<itemMetadata, cache>> = ret.ev.before

\* C28: an error that AddPool, AcquireInstance or ReleaseInstance returns for a
\* pool whose stored configuration has OnError was passed to OnError exactly
\* once, with the pool's name, and OnError got no other error.
ErrorsReachOnError ==
  ( /\ ret.op \in {"AddPool", "AcquireInstance", "ReleaseInstance"}
    /\ ret.err # NoErr
    /\ Has(poolConfig, ret.name) )
  => ret.ev.onError = <<ret.err>>

\* C29: the cache of a pool registered with caching holds at most CacheMaxSize
\* entries of that pool, whatever CacheMaxSize is, 0 included.
CacheWithinLimit ==
  \A p \in PoolNames :
    (Has(poolConfig, p) /\ poolConfig[p].EnableCaching)
      => getCacheSize(p) <= poolConfig[p].CacheMaxSize

\* C30: a call whose cache insertion found the cache at its limit passed to
\* OnDestroy exactly the values the insertion removed from the cache, and none
\* that the cache holds when the call returns (the inserted instance is one).
OnDestroyForEvictedOnly ==
  ( /\ ret.op \in {"AcquireInstance", "ReleaseInstance"}
    /\ ret.ev.atLimit )
  => /\ ret.ev.onDestroy = ret.ev.evicted
     /\ ret.ev.onDestroy \cap Range(cache) = {}

\* The instances in the free-lists of the pool registered as p: in its shards
\* if it is sharded, else in its single sync.Pool.
FreeListTotal(p) ==
  LET obj == poolHeap[pools[p]] IN
    SumOver([sh \in ShardIdx |-> BagSize(obj.fl[sh])], 0..(ShardLen(obj) - 1))

\* C25: when AddPool has returned nil, it has called the factory InitialSize
\* times and OnCreate once per instance, the pool's free-lists (its ShardCount
\* shards, or its one sync.Pool) hold InitialSize instances in total and no
\* index outside them holds any, and the pool's metrics are all zero.
AddPoolFillsAndZeroes ==
  (ret.op = "AddPool" /\ ret.err = NoErr) =>
    LET p == ret.name
        conf == poolConfig[p]
        obj == poolHeap[pools[p]]
    IN /\ ret.ev.created = conf.InitialSize
       /\ ret.ev.onCreate = conf.InitialSize
       /\ obj.sharded = IsSharded(conf)
       /\ FreeListTotal(p) = conf.InitialSize
       /\ \A sh \in ShardIdx : sh >= ShardLen(obj) => BagSize(obj.fl[sh]) = 0
       /\ MetricsOf(p) = ZeroMetrics

\* An AddPool of a sharded pool with InitialSize MaxFill has returned nil.
AddPoolFillsAndZeroesWitness ==
  /\ ret.op = "AddPool" /\ ret.err = NoErr
  /\ IsSharded(poolConfig[ret.name])
  /\ poolConfig[ret.name].InitialSize = MaxFill
  /\ \E sh \in ShardIdx : BagSize(poolHeap[pools[ret.name]].fl[sh]) = MaxFill

\* C22: a tick of the auto-tuner on a pool with a positive current usage takes
\* that usage as the current size, and with target = usage * AutoTuneFactor
\* clamped to [MinSize, MaxSize] different from it, calls ResizePool(p, target)
\* and OnAutoTune(p, target): with MinSize 1, MaxSize 10 and factor 2.0, usage 3
\* gives 6 and usage 8 gives 10.
AutoTuneTargetsUsage ==
  ( /\ ret.op \in {"autoTune", "autoTunePoolSize"}
    /\ ret.ev.was.CurrentUsage > 0 )
  => LET usage == ret.ev.was.CurrentUsage
         target == TunedSize(usage, poolConfig[ret.name])
     IN /\ ret.ev.measured = <<usage>>
        /\ target # usage =>
             /\ ret.ev.resize = <<target>>
             /\ ret.ev.onAutoTune = <<target>>

\* The free-lists of the pool a ResizePool was called on: its shards, or its
\* one sync.Pool.
ResizedLists == 0..(ShardLen(poolHeap[pools[ret.name]]) - 1)

\* C23: when ResizePool(p, n) on a registered pool has returned, no other call
\* being in flight, each free-list of the pool holds exactly n instances,
\* whatever it held before; a second ResizePool(p, n) right after the first
\* leaves the free-lists as the first left them.
ResizeReachesNewSize ==
  (ret.op = "ResizePool" /\ Has(pools, ret.name)) =>
    /\ \A sh \in ResizedLists : FreeListSizes(ret.name)[sh] = ret.size
    /\ ret.ev.again => FreeListSizes(ret.name) = ret.ev.was.fl

\* C24: a ResizePool(p, n) with n smaller than the size of a free-list of the
\* pool has called Reset on no instance and OnPut not at all, and has left the
\* pool's TotalPuts and CurrentUsage as they were.
ShrinkLeavesCountersAlone ==
  ( /\ ret.op = "ResizePool" /\ Has(pools, ret.name)
    /\ \E sh \in ResizedLists : ret.size < ret.ev.was.fl[sh] )
  => /\ ret.resets = 0
     /\ ret.ev.onPut = 0
     /\ CountersOf(ret.name, "TotalPuts") = ret.ev.was.TotalPuts
     /\ CountersOf(ret.name, "CurrentUsage") = ret.ev.was.CurrentUsage

\* A ResizePool to a smaller size has taken an instance out of a free-list and
\* dropped it, on a pool that has counted a release.
ShrinkLeavesCountersAloneWitness ==
  /\ ret.op = "ResizePool" /\ Has(pools, ret.name)
  /\ \E sh \in ResizedLists :
       /\ ret.size < ret.ev.was.fl[sh]
       /\ FreeListSizes(ret.name)[sh] < ret.ev.was.fl[sh]
  /\ ret.ev.discarded # {}
  /\ ret.ev.was.TotalPuts > 0

\* C27: SetShardingStrategy leaves the instances in the free-lists where they
\* are, and once a strategy is set, an acquire or a release that goes to a
\* shard of a sharded pool goes to the shard whose index the strategy returns.
StrategyRoutesCalls ==
  /\ ret.op = "SetShardingStrategy" => FreeListSizes(WorkerPool) = ret.ev.was.fl
  /\ ( /\ ret.op \in {"AcquireInstance", "ReleaseInstance"}
       /\ shardingStrategy # NoStrategy
       /\ ret.ev.route # <<>> )
     => ret.ev.route = <<shardingStrategy.index>>

\* C26: when an AddPool whose configuration has AutoTune and a positive
\* AutoTuneInterval has returned nil, a goroutine is in the loop of autoTune;
\* when one whose configuration has a positive TTL has, a goroutine is in the
\* loop of runEviction.
AddPoolStartsLoops ==
  (ret.op = "AddPool" /\ ret.err = NoErr /\ Has(poolConfig, ret.name)) =>
    LET conf == poolConfig[ret.name] IN
      /\ (conf.AutoTune /\ conf.AutoTuneInterval > 0)
           => \E l \in LoopIds : loops[l].kind = "tune" /\ Alive(l)
      /\ conf.TTL > 0
           => \E l \in LoopIds : loops[l].kind = "evict" /\ Alive(l)

\* C31: with calls following one another, each AcquireInstance that returned an
\* instance, from the cache or from a free-list, has added 1 to the pool's
\* TotalGets, and each ReleaseInstance that returned nil has added 1 to its
\* TotalPuts: so the counters equal the numbers of such calls since AddPool.
EveryCallCounted ==
  (ret.err = NoErr /\ Has(metrics, ret.name)) =>
    /\ ret.op = "AcquireInstance" =>
         CountersOf(ret.name, "TotalGets") = ret.ev.was.TotalGets + 1
    /\ ret.op = "ReleaseInstance" =>
         CountersOf(ret.name, "TotalPuts") = ret.ev.was.TotalPuts + 1

\* C35: a ReleaseInstance that returns nil has made its steps in this order, each
\* once: Reset, OnReset, the Put into the free-list, the metadata update to
\* "Idle", the "put" metric, the cache insertion if the pool caches, OnPut.
ReleaseStepsInOrder ==
  (ret.op = "ReleaseInstance" /\ ret.err = NoErr) =>
    ret.ev.order \in
      {<<"reset", "onReset", "insert", "metadata", "metric", "onPut">>,
       <<"reset", "onReset", "insert", "metadata", "metric", "cache", "onPut">>}

\* C39: a ReleaseInstance that returns an error for a nil instance or for a name
\* with no pool has made no step at all: no metadata update, no metric, no
\* Reset, no Put into a free-list and no cache insertion.
FailedReleaseChangesNothing ==
  (/\ ret.op = "ReleaseInstance"
   /\ ret.err.msg \in {ErrNilInstance, ErrPoolDoesNotExist}) =>
    ret.ev.order = <<>>

\* current * factor brought into [MinSize, MaxSize].
ClampedTarget(current, conf) ==
  LET target == current * conf.AutoTuneFactor.v IN
    IF target < conf.MinSize THEN conf.MinSize
    ELSE IF target > conf.MaxSize THEN conf.MaxSize
    ELSE target

StartStopNeverPanics ==
  /\ caller.pc # "panic"
  /\ (caller.op = "StopAutoTuning" /\ caller.pc = "idle") =>
       channels[autoTuneStop] = "open"

\* C38: whenever no call is in flight, pm.pools, pm.poolConfig,
\* pm.instanceFactories and pm.metrics hold the same set of pool names.
RegistryMapsAgree ==
  Quiescent =>
    /\ DOMAIN poolConfig = DOMAIN pools
    /\ DOMAIN instanceFactories = DOMAIN pools
    /\ DOMAIN metrics = DOMAIN pools

\* C33: when a sweep of the evictor started for pool P ends, the pool storage
\* and every free-list are as they were, every metadata entry that did not
\* belong to P (by its PoolName, or by its key for metadata that has none) and
\* every cache entry of another pool are as they were, and OnEvict was called
\* once for each entry the sweep removed.
SweepTouchesOwnPoolOnly ==
  sweep.pc = "done" =>
    LET metadataWas == sweep.before[1]
        cacheWas == sweep.before[2]
        recordWas(k) == sweep.before[5][metadataWas[k]]
        Own(k) == \/ recordWas(k).PoolName = sweep.pool
                  \/ k = sweep.pool /\ recordWas(k).PoolName = LazyMetadata.PoolName
    IN /\ pools = sweep.before[3]
       /\ poolHeap = sweep.before[4]
       /\ \A k \in DOMAIN metadataWas :
            ~Own(k) => (Has(itemMetadata, k) /\ itemMetadata[k] = metadataWas[k])
       /\ \A k \in DOMAIN cacheWas :
            k # sweep.pool => (Has(cache, k) /\ cache[k] = cacheWas[k])
       /\ sweep.onEvict = Cardinality(sweep.removed)

\* C34: SmartEvictionPolicy.ShouldEvict(key, metadata) is true exactly when one
\* of the configured conditions holds, for every key: TTL > 0 and the time since
\* LastUsed is above TTL, MaxIdleTime > 0 and that time is above MaxIdleTime,
\* or MinFrequency > 0 and Frequency is below MinFrequency.
SmartEvictsIffAnyCondition ==
  evictCall.called =>
    LET p == evictCall.policy
        since == evictCall.at - evictCall.LastUsed
    IN evictCall.result <=>
         \/ p.TTL > 0 /\ since > p.TTL
         \/ p.MaxIdleTime > 0 /\ since > p.MaxIdleTime
         \/ p.MinFrequency > 0 /\ evictCall.Frequency < p.MinFrequency

\* Goroutine t is in an AddPool that has found no pool under its name and will
\* return nil.
AddPoolPassed(t) ==
  /\ loc[t].op = "AddPool"
  /\ pc[t] \in {"add_pools", "add_config", "add_factory", "add_fill", "add_metrics"}

\* C37: of two AddPool calls for one name that run at the same time, at most one
\* gets past the check for an existing pool and returns nil; the other one
\* returns the error.
OneAddPoolWins ==
  \A t \in Threads : \A u \in Threads \ {t} :
    ~(AddPoolPassed(t) /\ AddPoolPassed(u) /\ loc[t].name = loc[u].name)

\* C36: whenever no call is in flight, the Frequency of every metadata record
\* in pm.itemMetadata equals the number of updates made to the record since it
\* was created; and an update that is about to store its record back finds the
\* map still holding that record, so that it undoes no eviction and no
\* RemovePool.
MetadataUpdatesNotLost ==
  /\ Quiescent =>
       \A k \in DOMAIN itemMetadata :
         metaHeap[itemMetadata[k]].Frequency = metaHeap[itemMetadata[k]].Updates
  /\ \A t \in Threads :
       pc[t] = "md_store" =>
         (Has(itemMetadata, loc[t].name) /\ itemMetadata[loc[t].name] = loc[t].mdRef)
====
